---- MODULE Spec2Model ----
(***************************************************************************)
(* A model of the vimish command engine (src/src/vim/vim.ts, the motion    *)
(* calculator and the document wrapper), driven one key at a time against  *)
(* a small host text buffer.                                               *)
(*                                                                         *)
(* Text is a sequence of one-character strings; offsets are 0-based as in  *)
(* the source, so the character at offset i is text[i + 1].                *)
(***************************************************************************)
EXTENDS Integers, Sequences, FiniteSets, TLC

(***************************************************************************)
(* JavaScript values                                                       *)
(***************************************************************************)
Null == "null"
Undefined == "undefined"
Esc == "<esc>"
NL == "\n"
\* the backtick key and character (a string literal cannot hold it)
Backtick == "<backtick>"

Min(a, b) == IF a < b THEN a ELSE b
Max(a, b) == IF a > b THEN a ELSE b

\* a count field read as `count || "1"`: the empty string is falsy, and so is the
\* undefined operatorCount of a fresh engine, which the model holds as <<>> too
Falsy(x) == x = <<>>

DigitValue(c) ==
    CASE c = "0" -> 0 [] c = "1" -> 1 [] c = "2" -> 2 [] c = "3" -> 3
      [] c = "4" -> 4 [] c = "5" -> 5 [] c = "6" -> 6 [] c = "7" -> 7
      [] c = "8" -> 8 [] c = "9" -> 9

RECURSIVE DecimalValue(_)
DecimalValue(ds) ==
    IF ds = <<>> THEN 0
    ELSE 10 * DecimalValue(SubSeq(ds, 1, Len(ds) - 1)) + DigitValue(ds[Len(ds)])

\* Number(count || dflt): the count strings hold decimal digits only
NumberOr(count, dflt) == IF Falsy(count) THEN dflt ELSE DecimalValue(count)

LowerLetters == <<"a", "b", "c", "d", "e", "f", "g", "h", "i", "j", "k", "l", "m",
                  "n", "o", "p", "q", "r", "s", "t", "u", "v", "w", "x", "y", "z">>
UpperLetters == <<"A", "B", "C", "D", "E", "F", "G", "H", "I", "J", "K", "L", "M",
                  "N", "O", "P", "Q", "R", "S", "T", "U", "V", "W", "X", "Y", "Z">>
Digits == {"0", "1", "2", "3", "4", "5", "6", "7", "8", "9"}

ToUpperCase(c) ==
    IF \E i \in 1..26 : LowerLetters[i] = c
    THEN UpperLetters[CHOOSE i \in 1..26 : LowerLetters[i] = c]
    ELSE c

ToLowerCase(c) ==
    IF \E i \in 1..26 : UpperLetters[i] = c
    THEN LowerLetters[CHOOSE i \in 1..26 : UpperLetters[i] = c]
    ELSE c

(***************************************************************************)
(* common.ts: character classes                                            *)
(***************************************************************************)
WhitespaceChars == {" ", NL, "\t"}
WordChars == {LowerLetters[i] : i \in 1..26} \cup {UpperLetters[i] : i \in 1..26}
                \cup Digits \cup {"_"}

getCharacterType(c) ==
    IF c \in WhitespaceChars THEN "Whitespace"
    ELSE IF c \in WordChars THEN "Text"
    ELSE "Symbols"

\* the class getWORD compares: !c.match(/\s/)
bigCharacterType(c) == IF c \in WhitespaceChars THEN "Whitespace" ELSE "Text"

(***************************************************************************)
(* The host document (vscode.TextDocument), as VimDocument reads it        *)
(***************************************************************************)
CharAt(t, i) == IF i >= 0 /\ i < Len(t) THEN t[i + 1] ELSE Undefined

NewlinesBefore(t, off) == Cardinality({j \in 1..off : t[j] = NL})

lineCount(t) == 1 + NewlinesBefore(t, Len(t))

ClampOffset(t, off) == Max(0, Min(off, Len(t)))

LineStart(t, n) ==
    IF n = 0 THEN 0
    ELSE CHOOSE j \in 1..Len(t) : t[j] = NL /\ NewlinesBefore(t, j) = n

LineEnd(t, n) == IF n >= lineCount(t) - 1 THEN Len(t) ELSE LineStart(t, n + 1) - 1

LineLength(t, n) == LineEnd(t, n) - LineStart(t, n)

\* document.positionAt(offset): the offset is clamped into the document
positionAt(t, off) ==
    LET OnLine(o, l) == [line |-> l, character |-> o - LineStart(t, l)]
        At(o) == OnLine(o, NewlinesBefore(t, o))
    IN  At(ClampOffset(t, off))

\* document.offsetAt(position): the position is validated (clamped) first
offsetAt(t, line, character) ==
    IF line >= lineCount(t) THEN Len(t)
    ELSE LineStart(t, line) + Min(character, LineLength(t, line))

\* TextLine.firstNonWhitespaceCharacterIndex: the line's length when it is blank
firstNonWhitespaceCharacterIndex(t, n) ==
    LET First(len, nonblank) ==
            IF nonblank = {} THEN len
            ELSE CHOOSE c \in nonblank : \A d \in nonblank : c <= d
        Scan(s, len) ==
            First(len, {c \in 0..(len - 1) : t[s + c + 1] \notin WhitespaceChars})
    IN  Scan(LineStart(t, n), LineLength(t, n))

\* document.lineAt(n) throws for a line that does not exist
ValidLine(t, n) == n >= 0 /\ n < lineCount(t)

SubText(t, from, to) == SubSeq(t, from + 1, to)

(***************************************************************************)
(* common.ts: VimDocument and Position                                     *)
(***************************************************************************)
NoPosition == [kind |-> "null", index |-> 0, line |-> 0, column |-> 0]
ThrownPosition == [kind |-> "exc", index |-> 0, line |-> 0, column |-> 0]
Pos(i, l, c) == [kind |-> "ok", index |-> i, line |-> l, column |-> c]

\* the Position at a host position p
PosAt(index, p) == Pos(index, p.line, p.character)

positionFromIndex(t, index) == PosAt(index, positionAt(t, index))

\* new vscode.Position(line, column) throws on a negative line or column
positionFromLine(t, line, column) ==
    IF line < 0 \/ column < 0 THEN ThrownPosition
    ELSE positionFromIndex(t, offsetAt(t, line, column))

translate(t, pos, lineDelta, columnDelta, fix) ==
    IF pos.line + lineDelta < 0
    THEN (IF fix THEN Pos(0, 0, 0) ELSE NoPosition)
    ELSE LET Checked(p) ==
                 IF p.kind = "exc" THEN p
                 ELSE IF ~fix /\ (p.line # pos.line + lineDelta
                                  \/ p.column # pos.column + columnDelta)
                 THEN NoPosition
                 ELSE p
         IN  Checked(positionFromLine(t, pos.line + lineDelta, pos.column + columnDelta))

NoWord == [kind |-> "null", start |-> 0, end |-> 0, type |-> "none"]

\* the backward loop of getWord/getWORD: runs off the buffer start to -1
RECURSIVE WordStartLoop(_, _, _, _)
WordStartLoop(t, big, wordType, wordStart) ==
    IF wordStart < 0 THEN wordStart
    ELSE IF wordType # (IF big THEN bigCharacterType(t[wordStart + 1])
                        ELSE getCharacterType(t[wordStart + 1]))
    THEN wordStart + 1
    ELSE WordStartLoop(t, big, wordType, wordStart - 1)

\* the forward loop of getWord/getWORD: runs off the buffer end to text.length
RECURSIVE WordEndLoop(_, _, _, _)
WordEndLoop(t, big, wordType, wordEnd) ==
    IF wordEnd >= Len(t) THEN wordEnd
    ELSE IF wordType # (IF big THEN bigCharacterType(t[wordEnd + 1])
                        ELSE getCharacterType(t[wordEnd + 1]))
    THEN wordEnd - 1
    ELSE WordEndLoop(t, big, wordType, wordEnd + 1)

\* the run of characters of class wordType around index
WordOfType(t, big, wordType, index) ==
    [kind |-> "ok",
     start |-> WordStartLoop(t, big, wordType, index),
     end |-> WordEndLoop(t, big, wordType, index),
     type |-> wordType]

\* getWord (big = FALSE) and getWORD (big = TRUE): null off the buffer
WordAt(t, big, index) ==
    IF CharAt(t, index) = Undefined THEN NoWord
    ELSE WordOfType(t, big,
                    IF big THEN bigCharacterType(t[index + 1])
                    ELSE getCharacterType(t[index + 1]),
                    index)

getWord(t, index) == WordAt(t, FALSE, index)

getWORD(t, index) == WordAt(t, TRUE, index)

(***************************************************************************)
(* Actions (VimAction) and motion results (Motion)                         *)
(***************************************************************************)
\* one record shape for the tagged union; `name` is the variant's own key
\* (motion, newMode, operator, object, instant, replace)
Action(type, name, count, target, register, range, index) ==
    [type |-> type, name |-> name, count |-> count, target |-> target,
     register |-> register, range |-> range, index |-> index]

NoAction == Action("null", Null, 0, Null, Null, Null, 0)
MotionAction(name, count, target) == Action("motion", name, count, target, Null, Null, 0)
JumpAction(index) == Action("motion", "jump", 1, Null, Null, Null, index)
ChangeModeAction(newMode, count) == Action("changeMode", newMode, count, Null, Null, Null, 0)
OperatorAction(operator) == Action("operator", operator, 0, Null, Null, Null, 0)
ObjectAction(range, object, count) == Action("object", object, count, Null, Null, range, 0)
InstantAction(instant, count, register, target) ==
    Action("instant", instant, count, target, register, Null, 0)
ReplaceAction(replace, count) == Action("replace", replace, count, Null, Null, Null, 0)

Motion(start, end, inclusive, linewise) ==
    [kind |-> "ok", start |-> start, end |-> end,
     inclusive |-> inclusive, linewise |-> linewise]
NoMotion == [kind |-> "null", start |-> 0, end |-> 0, inclusive |-> FALSE, linewise |-> FALSE]
\* a TypeError or an illegal-argument error raised while calculating
ThrownMotion == [kind |-> "exc", start |-> 0, end |-> 0, inclusive |-> FALSE, linewise |-> FALSE]

Found(i) == [kind |-> "ok", index |-> i]
NotFound == [kind |-> "null", index |-> 0]
Thrown == [kind |-> "exc", index |-> 0]

(***************************************************************************)
(* motion.ts: calculateMotion                                              *)
(***************************************************************************)
\* a word motion that stops behind the current word, before the blanks
WordForwardLoopToBlanks(t, big, endIndex, n) == Found(WordAt(t, big, endIndex).end + 1)

\* the loop of w / W
RECURSIVE WordForwardLoop(_, _, _, _)
WordForwardLoop(t, big, endIndex, n) ==
    IF n = 0 THEN Found(endIndex)
    ELSE LET Skip(nextWord, after) ==
                 IF after.kind = "null" THEN Found(nextWord.end)
                 ELSE WordForwardLoop(t, big, after.start, n - 1)
             Step(currentWord, nextWord) ==
                 IF nextWord.kind = "null" THEN Found(currentWord.end)
                 ELSE IF nextWord.type = "Whitespace"
                 THEN Skip(nextWord, WordAt(t, big, nextWord.end + 1))
                 ELSE WordForwardLoop(t, big, nextWord.start, n - 1)
             From(currentWord) ==
                 IF currentWord.kind = "null" THEN Thrown
                 ELSE Step(currentWord, WordAt(t, big, currentWord.end + 1))
         IN  From(WordAt(t, big, endIndex))

\* the loop of e / E
RECURSIVE WordEndForwardLoop(_, _, _, _)
WordEndForwardLoop(t, big, endIndex, n) ==
    IF n = 0 THEN Found(endIndex)
    ELSE LET Skip(currentWord, after) ==
                 IF after.kind = "null" THEN Found(currentWord.end)
                 ELSE WordEndForwardLoop(t, big, after.end, n - 1)
             Step(currentWord) ==
                 IF currentWord.kind = "null" THEN Found(endIndex)
                 ELSE IF currentWord.type = "Whitespace"
                 THEN Skip(currentWord, WordAt(t, big, currentWord.end + 1))
                 ELSE WordEndForwardLoop(t, big, currentWord.end, n - 1)
             From(first) ==
                 IF first.kind = "null" THEN Thrown
                 ELSE IF endIndex = first.end THEN Step(WordAt(t, big, first.end + 1))
                 ELSE Step(first)
         IN  From(WordAt(t, big, endIndex))

\* the loop of b / B
RECURSIVE WordBackLoop(_, _, _, _)
WordBackLoop(t, big, endIndex, n) ==
    IF n = 0 THEN Found(endIndex)
    ELSE LET Skip(currentWord, before) ==
                 IF before.kind = "null" THEN Found(currentWord.start)
                 ELSE WordBackLoop(t, big, before.start, n - 1)
             Step(currentWord) ==
                 IF currentWord.kind = "null" THEN Found(endIndex)
                 ELSE IF currentWord.type = "Whitespace"
                 THEN Skip(currentWord, WordAt(t, big, currentWord.start - 1))
                 ELSE WordBackLoop(t, big, currentWord.start, n - 1)
             From(first) ==
                 IF first.kind = "null" THEN Thrown
                 ELSE IF endIndex = first.start THEN Step(WordAt(t, big, first.start - 1))
                 ELSE Step(first)
         IN  From(WordAt(t, big, endIndex))

\* the loop of f / t: the index of the count-th target after index on the line
RECURSIVE FindForwardLoop(_, _, _, _, _)
FindForwardLoop(t, target, count, endIndex, k) ==
    IF endIndex > Len(t) THEN Found(endIndex)
    ELSE IF endIndex = Len(t) \/ t[endIndex + 1] = NL THEN NotFound
    ELSE IF t[endIndex + 1] = target /\ k + 1 = count THEN Found(endIndex)
    ELSE FindForwardLoop(t, target, count, endIndex + 1,
                         IF t[endIndex + 1] = target THEN k + 1 ELSE k)

\* the loop of F / T
RECURSIVE FindBackwardLoop(_, _, _, _, _)
FindBackwardLoop(t, target, count, endIndex, k) ==
    IF endIndex < -1 THEN Found(endIndex)
    ELSE IF endIndex < 0 \/ CharAt(t, endIndex) = NL THEN NotFound
    ELSE IF CharAt(t, endIndex) = target /\ k + 1 = count THEN Found(endIndex)
    ELSE FindBackwardLoop(t, target, count, endIndex - 1,
                          IF CharAt(t, endIndex) = target THEN k + 1 ELSE k)

OpenBraces == {"(", "[", "{"}
CloseBraces == {")", "]", "}"}
matchingBraces(c) ==
    CASE c = "[" -> "]" [] c = "]" -> "[" [] c = "{" -> "}"
      [] c = "}" -> "{" [] c = "(" -> ")" [] c = ")" -> "("

\* a search for the nearest partner character that ignores nesting
BraceMatchNearest(t, brace, matchingBrace, dir, endIndex, unmatchedCount) ==
    LET hits == {k \in 0..(Len(t) - 1) :
                    t[k + 1] = matchingBrace /\ (k - endIndex) * dir >= 0}
    IN  IF hits = {} THEN NotFound
        ELSE Found(CHOOSE k \in hits : \A h \in hits : (h - k) * dir >= 0)

\* the inner loops of %: walk in direction dir until the depth returns to 0
RECURSIVE BraceMatchLoop(_, _, _, _, _, _)
BraceMatchLoop(t, brace, matchingBrace, dir, endIndex, unmatchedCount) ==
    IF endIndex < 0 \/ endIndex >= Len(t) THEN NotFound
    ELSE IF t[endIndex + 1] = brace
    THEN BraceMatchLoop(t, brace, matchingBrace, dir, endIndex + dir, unmatchedCount + 1)
    ELSE IF t[endIndex + 1] = matchingBrace
    THEN (IF unmatchedCount - 1 = 0 THEN Found(endIndex)
          ELSE BraceMatchLoop(t, brace, matchingBrace, dir, endIndex + dir,
                              unmatchedCount - 1))
    ELSE BraceMatchLoop(t, brace, matchingBrace, dir, endIndex + dir, unmatchedCount)

\* faulty variant of BraceScanLoop: the scan runs on over the line ends
BraceScanToBufferEnd(t, endIndex) ==
    LET found == {k \in endIndex..(Len(t) - 1) : t[k + 1] \in OpenBraces \cup CloseBraces}
        first == CHOOSE b \in found : \A k \in found : b <= k
    IN  IF found = {} THEN NotFound
        ELSE BraceMatchLoop(t, t[first + 1], matchingBraces(t[first + 1]),
                            IF t[first + 1] \in OpenBraces THEN 1 ELSE -1,
                            IF t[first + 1] \in OpenBraces THEN first + 1 ELSE first - 1, 1)

\* the outer loop of %: the first brace at or after index on the line
RECURSIVE BraceScanLoop(_, _)
BraceScanLoop(t, endIndex) ==
    IF endIndex >= Len(t) \/ t[endIndex + 1] = NL THEN NotFound
    ELSE IF t[endIndex + 1] \in OpenBraces
    THEN BraceMatchLoop(t, t[endIndex + 1], matchingBraces(t[endIndex + 1]), 1,
                        endIndex + 1, 1)
    ELSE IF t[endIndex + 1] \in CloseBraces
    THEN BraceMatchLoop(t, t[endIndex + 1], matchingBraces(t[endIndex + 1]), -1,
                        endIndex - 1, 1)
    ELSE BraceScanLoop(t, endIndex + 1)

FromFound(r, index, delta, inclusive) ==
    IF r.kind = "ok" THEN Motion(index, r.index + delta, inclusive, FALSE)
    ELSE IF r.kind = "null" THEN NoMotion
    ELSE ThrownMotion

\* a motion ending at position p, where a translate that returned null is kept
ToPosition(index, p, inclusive, linewise) ==
    IF p.kind = "exc" THEN ThrownMotion
    ELSE IF p.kind = "null" THEN NoMotion
    ELSE Motion(index, p.index, inclusive, linewise)

\* a motion ending at p.index: reading .index of a null position throws
Dereferenced(index, p, inclusive, linewise) ==
    IF p.kind # "ok" THEN ThrownMotion
    ELSE Motion(index, p.index, inclusive, linewise)

\* a motion ending at column `column` of line `line`, through positionFromLine
ToLineColumn(t, index, line, column, inclusive, linewise) ==
    Dereferenced(index, positionFromLine(t, line, column), inclusive, linewise)

\* a motion to the first non-blank of line `line`; lineAt throws off the buffer
ToFirstNonBlank(t, index, line, linewise) ==
    IF ~ValidLine(t, line) THEN ThrownMotion
    ELSE ToLineColumn(t, index, line, firstNonWhitespaceCharacterIndex(t, line),
                      FALSE, linewise)

\* faulty variant of MotionLine: the count is ignored
MotionLineSingle(t, m, index) ==
    Dereferenced(index, translate(t, positionFromIndex(t, index), 0, 0, TRUE), FALSE, TRUE)

MotionLine(t, m, index) ==
    Dereferenced(index, translate(t, positionFromIndex(t, index), m.count - 1, 0, TRUE),
                 FALSE, TRUE)

MotionH(t, m, index) ==
    LET Left(position) ==
            IF position.column >= m.count THEN Motion(index, index - m.count, FALSE, FALSE)
            ELSE Motion(index, index - position.column, FALSE, FALSE)
    IN  Left(positionFromIndex(t, index))

\* an l that runs on past the end of its line
MotionLAcrossLines(t, m, index) ==
    Motion(index, IF index + m.count < Len(t) THEN index + m.count ELSE Len(t), FALSE, FALSE)

MotionL(t, m, index) ==
    LET Within(position, lineEnd) ==
            IF position.column + m.count < lineEnd
            THEN Motion(index, index + m.count, FALSE, FALSE)
            ELSE Motion(index, index + (lineEnd - position.column), FALSE, FALSE)
        Right(position) == Within(position, LineLength(t, position.line))
    IN  Right(positionFromIndex(t, index))

\* faulty variant of MotionJ: the column is clamped to the target line
MotionJClamped(t, m, index) ==
    LET Down(initialPosition) ==
            ToPosition(index,
                       translate(t, initialPosition,
                                 Min(m.count, lineCount(t) - initialPosition.line - 1),
                                 0, TRUE),
                       FALSE, TRUE)
    IN  Down(positionFromIndex(t, index))

MotionJ(t, m, index) ==
    LET Down(initialPosition) ==
            ToPosition(index,
                       translate(t, initialPosition,
                                 Min(m.count, lineCount(t) - initialPosition.line - 1),
                                 0, FALSE),
                       FALSE, TRUE)
    IN  Down(positionFromIndex(t, index))

MotionK(t, m, index) ==
    LET Up(initialPosition) ==
            ToPosition(index,
                       translate(t, initialPosition,
                                 -Min(m.count, initialPosition.line), 0, FALSE),
                       FALSE, TRUE)
    IN  Up(positionFromIndex(t, index))

MotionZero(t, m, index) ==
    LET Home(position) ==
            Dereferenced(index, translate(t, position, 0, -position.column, FALSE),
                         FALSE, FALSE)
    IN  Home(positionFromIndex(t, index))

MotionCaret(t, m, index) ==
    LET Home(position) ==
            Dereferenced(index,
                         translate(t, position, 0,
                                   firstNonWhitespaceCharacterIndex(t, position.line)
                                       - position.column,
                                   FALSE),
                         FALSE, FALSE)
    IN  Home(positionFromIndex(t, index))

\* faulty variant of MotionDollar: the range is exclusive
MotionDollarExclusive(t, m, index) ==
    ToLineColumn(t, index, positionAt(t, index).line,
                 LineLength(t, positionAt(t, index).line) - 1, FALSE, FALSE)

MotionDollar(t, m, index) ==
    LET LastColumn(target) ==
            IF target.kind = "exc" THEN ThrownMotion
            ELSE ToLineColumn(t, index, target.line, LineLength(t, target.line) - 1,
                              TRUE, FALSE)
    IN  LastColumn(translate(t, positionFromIndex(t, index), m.count - 1, 0, TRUE))

MotionG(t, m, index) ==
    LET targetLine == (IF m.count # 0 THEN Min(m.count, lineCount(t))
                       ELSE lineCount(t)) - 1
    IN  ToFirstNonBlank(t, index, targetLine, TRUE)

MotionGG(t, m, index) ==
    LET targetLine == (IF m.count # 0 THEN Min(m.count, lineCount(t)) ELSE 1) - 1
    IN  ToFirstNonBlank(t, index, targetLine, TRUE)

MotionFind(t, m, index) ==
    IF m.name \in {"f", "t"}
    THEN FromFound(FindForwardLoop(t, m.target, m.count, index + 1, 0), index,
                   IF m.name = "t" THEN -1 ELSE 0, TRUE)
    ELSE FromFound(FindBackwardLoop(t, m.target, m.count, index - 1, 0), index,
                   IF m.name = "T" THEN 1 ELSE 0, FALSE)

MotionRelativeLine(t, m, index) ==
    LET count == (m.count * (IF m.name = "-" THEN -1 ELSE 1))
                    - (IF m.name = "_" THEN 1 ELSE 0)
        targetLineNumber ==
            Max(Min(positionAt(t, index).line + count, lineCount(t) - 1), 0)
    IN  ToFirstNonBlank(t, index, targetLineNumber, TRUE)

MotionPercent(t, m, index) ==
    IF m.count # 0
    THEN ToFirstNonBlank(t, index, ((m.count * lineCount(t) + 99) \div 100) - 1, TRUE)
    ELSE FromFound(BraceScanLoop(t, index), index, 0, TRUE)

calculateMotion(t, m, index) ==
    CASE m.name = "line" -> MotionLine(t, m, index)
      [] m.name = "jump" -> Motion(index, m.index, TRUE, FALSE)
      [] m.name = "h" -> MotionH(t, m, index)
      [] m.name = "l" -> MotionL(t, m, index)
      [] m.name = "j" -> MotionJ(t, m, index)
      [] m.name = "k" -> MotionK(t, m, index)
      [] m.name = "0" -> MotionZero(t, m, index)
      [] m.name = "^" -> MotionCaret(t, m, index)
      [] m.name = "$" -> MotionDollar(t, m, index)
      [] m.name \in {"w", "W"} ->
            FromFound(WordForwardLoop(t, m.name = "W", index, m.count), index, 0, FALSE)
      [] m.name = "G" -> MotionG(t, m, index)
      [] m.name = "gg" -> MotionGG(t, m, index)
      [] m.name \in {"e", "E"} ->
            FromFound(WordEndForwardLoop(t, m.name = "E", index, m.count), index, 0, TRUE)
      \* b is exclusive and B inclusive
      [] m.name \in {"b", "B"} ->
            FromFound(WordBackLoop(t, m.name = "B", index, m.count), index, 0,
                      m.name = "B")
      [] m.name \in {"f", "t", "F", "T"} -> MotionFind(t, m, index)
      [] m.name \in {"-", NL, "_", "+"} -> MotionRelativeLine(t, m, index)
      [] m.name = "%" -> MotionPercent(t, m, index)
      \* no branch matches: the function falls off its end and returns undefined
      [] OTHER -> NoMotion

(***************************************************************************)
(* The engine's state.  The operators below work on one record s that      *)
(* holds the Vim object's fields and the host editor's text and selection; *)
(* the module's variables are that record's fields.                        *)
(***************************************************************************)
EmptyMap == [n \in {} |-> Null]
MapPut(f, name, val) == [n \in (DOMAIN f) \cup {name} |-> IF n = name THEN val ELSE f[n]]

NoMark == [valid |-> FALSE, line |-> 0, character |-> 0]
Mark(line, character) == [valid |-> TRUE, line |-> line, character |-> character]

NoLineSearch == [set |-> FALSE, motion |-> Null, target |-> Null]
NoIndexSet == [active |-> FALSE, groups |-> <<>>]

selStart(s) == Min(s.anchor, s.active)
selEnd(s) == Max(s.anchor, s.active)

\* active.selection = new Selection(anchor, active): the host reports the change
\* back to updateSelection later, and only when the selection did change
SetSelection(s, a, b) ==
    LET Select(a2, b2) ==
            [s EXCEPT !.anchor = a2, !.active = b2, !.others = <<>>,
                      !.selNotify = s.selNotify \/ a2 # s.anchor \/ b2 # s.active
                                        \/ s.others # <<>>]
    IN  Select(ClampOffset(s.text, a), ClampOffset(s.text, b))

\* a Selection built from (line, character), validated against the document
SetCursorAt(s, line, character) ==
    LET Collapse(o) == SetSelection(s, o, o) IN Collapse(offsetAt(s.text, line, character))

\* every selection empty
Collapsed(n) == [i \in 1..n |-> TRUE]

\* selections = selections.map(s => new Selection(s.active, s.active))
CollapseSelections(s) ==
    [s EXCEPT !.anchor = s.active, !.others = Collapsed(Len(s.others)),
              !.selNotify = s.selNotify \/ s.anchor # s.active
                                \/ s.others # Collapsed(Len(s.others))]

setModeNoReset(s, mode) == [s EXCEPT !.mode = mode]

\* faulty variant of setModeReset: the register target and the operator count
\* survive the reset
setModeKeepingRegister(s, mode) ==
    [s EXCEPT !.pseudoMode = Null,
              !.pseudoModeParameter = Null,
              !.operatorPending = Null,
              !.enteredCount = <<>>,
              !.objectRange = Null,
              !.indexSet = NoIndexSet,
              !.enteredText = <<>>,
              !.mode = mode]

setModeReset(s, mode) ==
    [s EXCEPT !.operatorCount = <<>>,
              !.pseudoMode = Null,
              !.pseudoModeParameter = Null,
              !.operatorPending = Null,
              !.enteredCount = <<>>,
              !.objectRange = Null,
              !.indexSet = NoIndexSet,
              !.enteredText = <<>>,
              !.registerTarget = "\"",
              !.mode = mode]

setMode(s, mode, reset) == IF reset THEN setModeReset(s, mode) ELSE setModeNoReset(s, mode)

\* cleanSelection on the editor's selection: a cursor past the last character
\* of a non-empty line steps back onto it
cleanSelection(s) ==
    IF s.mode \in {"Normal", "OperatorPending"}
    THEN LET Clean(p) ==
                 IF p.character = 0 \/ s.anchor # s.active THEN s
                 ELSE IF p.character >= LineLength(s.text, p.line)
                 THEN [SetCursorAt(s, p.line, p.character - 1) EXCEPT !.others = s.others]
                 ELSE s
         IN  Clean(positionAt(s.text, selStart(s)))
    ELSE s

\* faulty variant of EverySelectionEmpty: only the primary selection is looked at
PrimarySelectionEmpty(s) == s.anchor = s.active

\* selections.every(s => s.start.isEqual(s.end))
EverySelectionEmpty(s) == s.anchor = s.active /\ \A i \in DOMAIN s.others : s.others[i]

\* faulty variant of updateSelection: a selection made while an operator is
\* pending switches to Visual mode without a reset
updateSelectionKeepingPending(s) ==
    cleanSelection(IF s.mode = "Visual" /\ EverySelectionEmpty(s)
                   THEN setMode(s, "Normal", TRUE)
                   ELSE IF s.mode \in {"Normal", "OperatorPending"}
                           /\ ~EverySelectionEmpty(s)
                   THEN setMode(s, "Visual", FALSE)
                   ELSE s)

updateSelection(s) ==
    cleanSelection(IF s.mode = "Visual" /\ EverySelectionEmpty(s)
                   THEN setMode(s, "Normal", TRUE)
                   ELSE IF s.mode \in {"Normal", "OperatorPending"}
                           /\ ~EverySelectionEmpty(s)
                   THEN setMode(s, "Visual", TRUE)
                   ELSE s)

(***************************************************************************)
(* Vim.documentChanged: marks against one content change                   *)
(***************************************************************************)
PosLess(l1, c1, l2, c2) == l1 < l2 \/ (l1 = l2 /\ c1 < c2)

\* faulty variant of InvalidateMark: no mark is ever removed
InvalidateMarkNever(mk, sl, sc, el, ec) == mk

\* change.range.contains(mark): start <= mark <= end
InvalidateMark(mk, sl, sc, el, ec) ==
    IF mk.valid /\ ~PosLess(mk.line, mk.character, sl, sc)
                /\ ~PosLess(el, ec, mk.line, mk.character)
    THEN NoMark ELSE mk

TranslateMark(mk, sl, sc, el, ec, netLines) ==
    IF ~mk.valid \/ PosLess(mk.line, mk.character, sl, sc)
                 \/ PosLess(mk.line, mk.character, el, ec)
    THEN mk
    ELSE Mark(mk.line + netLines, mk.character)

\* one content change: the replaced range [from, to) of the old text and the
\* inserted text
documentChanged(marks, oldText, from, to, inserted) ==
    LET Changed(sp, ep, netLines) ==
            [c \in DOMAIN marks |->
                TranslateMark(InvalidateMark(marks[c], sp.line, sp.character,
                                             ep.line, ep.character),
                              sp.line, sp.character, ep.line, ep.character, netLines)]
        Between(sp, ep) ==
            Changed(sp, ep,
                    (0 - (ep.line - sp.line)) + NewlinesBefore(inserted, Len(inserted)))
    IN  Between(positionAt(oldText, from), positionAt(oldText, to))

(***************************************************************************)
(* The host editor: applying an edit or a command the engine asked for     *)
(***************************************************************************)
\* where the host leaves an offset of the old text after [from, to) became
\* `inserted`
ShiftOffset(p, from, to, n) ==
    IF p < from THEN p
    ELSE IF p >= to /\ (p > from \/ to > from) THEN p - (to - from) + n
    ELSE IF p = from /\ to = from THEN p + n
    ELSE from

\* replace [from, to) by `inserted`, keep the selection on the same text, push
\* an undo stop and notify documentChanged
HostReplace(s, from0, to0, inserted) ==
    LET Replaced(from, to) ==
            [s EXCEPT !.text = SubText(s.text, 0, from) \o inserted
                                   \o SubText(s.text, to, Len(s.text)),
                      !.anchor = ShiftOffset(s.anchor, from, to, Len(inserted)),
                      !.active = ShiftOffset(s.active, from, to, Len(inserted)),
                      !.undoStack = Append(s.undoStack,
                                           [text |-> s.text, from |-> from,
                                            to |-> from + Len(inserted),
                                            removed |-> SubText(s.text, from, to)]),
                      !.marks = documentChanged(s.marks, s.text, from, to, inserted)]
    IN  Replaced(ClampOffset(s.text, Min(from0, to0)), ClampOffset(s.text, Max(from0, to0)))

\* the cursor of s set on offset o
CursorOn(s, o) == [s EXCEPT !.anchor = o, !.active = o]

\* a new empty line inserted at offset o, the cursor on it
HostInsertLine(s, o, cursor) == CursorOn(HostReplace(s, o, o, <<NL>>), cursor)

\* editor.action.insertLineAfter: a new empty line below, the cursor on it
HostInsertLineAfter(s) ==
    LET After(eol) == HostInsertLine(s, eol, eol + 1)
    IN  After(LineEnd(s.text, positionAt(s.text, s.active).line))

\* editor.action.insertLineBefore: a new empty line above, the cursor on it
HostInsertLineBefore(s) ==
    LET Before(bol) == HostInsertLine(s, bol, bol)
    IN  Before(LineStart(s.text, positionAt(s.text, s.active).line))

\* cursorHome: the first non-blank of the line, or column 0 when already there
HostCursorHome(s) ==
    LET Home(p, first) ==
            CursorOn(s, LineStart(s.text, p.line)
                            + (IF p.character = first THEN 0 ELSE first))
        OnLine(p) == Home(p, firstNonWhitespaceCharacterIndex(s.text, p.line))
    IN  OnLine(positionAt(s.text, s.active))

\* undo: the inverse of the last edit puts the removed text back where the
\* inserted text is (notifying documentChanged), the cursor clamped into it
HostUndo(s) ==
    IF s.undoStack = <<>> THEN s
    ELSE LET last == s.undoStack[Len(s.undoStack)] IN
         [s EXCEPT !.marks = documentChanged(s.marks, s.text, last.from, last.to,
                                             last.removed),
                   !.text = last.text,
                   !.undoStack = SubSeq(s.undoStack, 1, Len(s.undoStack) - 1),
                   !.anchor = Min(selStart(s), Len(last.text)),
                   !.active = Min(selStart(s), Len(last.text))]

\* default:type: the typed text replaces every selection
HostType(s, txt) ==
    [HostReplace(s, selStart(s), selEnd(s), txt) EXCEPT !.others = Collapsed(Len(s.others))]

(***************************************************************************)
(* Suspended commands: a command that awaits the host is kept as a task    *)
(* that names the host operation and the code to run when it settles       *)
(***************************************************************************)
Task(cont, op, a, b, txt) ==
    [cont |-> cont, op |-> op, a |-> a, b |-> b, txt |-> txt,
     operator |-> Null, linewise |-> FALSE, lastLine |-> FALSE, firstLine |-> FALSE,
     ret |-> "none", line |-> 0, character |-> 0, count |-> 0,
     seq |-> 0, awaited |-> FALSE]

Suspend(s, task) == [s EXCEPT !.tasks = Append(s.tasks, task)]

HostApply(s, task) ==
    CASE task.op = "delete" -> HostReplace(s, task.a, task.b, <<>>)
      [] task.op = "replace" -> HostReplace(s, task.a, task.b, task.txt)
      [] task.op = "insert" -> HostReplace(s, task.a, task.a, task.txt)
      [] task.op = "type" -> HostType(s, task.txt)
      [] task.op = "insertLineAfter" -> HostInsertLineAfter(s)
      [] task.op = "insertLineBefore" -> HostInsertLineBefore(s)
      [] task.op = "cursorHome" -> HostCursorHome(s)
      [] task.op = "undo" -> HostUndo(s)

(***************************************************************************)
(* Vim.performOperation                                                    *)
(***************************************************************************)
\* what a handler returns: the state it leaves, whether it threw, and the motion
\* it calculated, if any
Moved(s, exc, motion) == [s |-> s, exc |-> exc, motion |-> motion]
R(s, exc) == Moved(s, exc, NoMotion)

\* String.prototype.substring: both ends clamped into the string
substring(t, a, b) ==
    LET Between(a2, b2) == SubText(t, Min(a2, b2), Max(a2, b2))
    IN  Between(ClampOffset(t, a), ClampOffset(t, b))

\* start <= end, and an inclusive motion covers its last character
NormalizeMotion(m) ==
    LET lo == IF m.end < m.start THEN m.end ELSE m.start
        hi == IF m.end < m.start THEN m.start ELSE m.end
    IN  [m EXCEPT !.start = lo, !.end = IF m.inclusive THEN hi + 1 ELSE hi]

\* the text performOperation copies into the target register
RegisterTextOf(t, m) ==
    IF m.linewise
    THEN SubText(t, LineStart(t, positionAt(t, m.start).line),
                    LineEnd(t, positionAt(t, m.end).line)) \o <<NL>>
    ELSE substring(t, m.start, m.end)

WriteRegister(s, linewise, txt) ==
    [s EXCEPT !.registers = MapPut(s.registers, s.registerTarget,
                                   [linewise |-> linewise, text |-> txt])]

\* the code after `await this.performOperation(...)` in the caller
AfterOperation(s, ret, operator) ==
    CASE ret = "Y" -> setMode(s, "Normal", TRUE)
      [] ret = "visualCharwise" ->
            setMode(SetSelection(s, selStart(s), selStart(s)),
                    IF operator = "c" THEN "Insert" ELSE "Normal", TRUE)
      [] ret = "visualLinewise" ->
            setMode(SetCursorAt(s, positionAt(s.text, selStart(s)).line, 0),
                    IF operator = "c" THEN "Insert" ELSE "Normal", TRUE)
      [] OTHER -> s

\* the edit callback of a linewise delete or change: the whole buffer when the
\* lines are all of it (the register is then overwritten with the buffer text),
\* else from the end of the line before when the last line is removed
LinewiseDelete(s, operator, m, ret) ==
    LET Delete(from, to, firstLine, lastLine) ==
            Suspend(IF firstLine /\ lastLine THEN WriteRegister(s, TRUE, s.text) ELSE s,
                    [Task("performAfterEdit", "delete", from, to, <<>>)
                     EXCEPT !.operator = operator, !.linewise = TRUE,
                            !.lastLine = lastLine, !.firstLine = firstLine, !.ret = ret])
        Edges(startLineNumber, endLineNumber, firstLine, lastLine) ==
            IF firstLine /\ lastLine THEN Delete(0, Len(s.text), firstLine, lastLine)
            ELSE Delete(IF lastLine /\ ~firstLine
                        THEN LineEnd(s.text, startLineNumber - 1)
                        ELSE LineStart(s.text, startLineNumber),
                        offsetAt(s.text, endLineNumber + 1, 0),
                        firstLine, lastLine)
        Lines(startLineNumber, endLineNumber) ==
            Edges(startLineNumber, endLineNumber,
                  startLineNumber = 0, endLineNumber = lineCount(s.text) - 1)
    IN  Lines(positionAt(s.text, m.start).line, positionAt(s.text, m.end).line)

\* the edit callback of a charwise delete or change
CharwiseDelete(s, operator, m, ret) ==
    LET Delete(from) ==
            Suspend(SetSelection(s, from, from),
                    [Task("performAfterEdit", "delete", from, ClampOffset(s.text, m.end), <<>>)
                     EXCEPT !.operator = operator, !.ret = ret])
    IN  Delete(ClampOffset(s.text, m.start))

\* performOperation once the register is written
Operate(s1, operator, m, ret) ==
    IF operator = "y" THEN AfterOperation(setMode(s1, "Normal", TRUE), ret, operator)
    ELSE IF operator \in {"c", "d"}
    THEN (IF m.linewise THEN LinewiseDelete(s1, operator, m, ret)
          ELSE CharwiseDelete(s1, operator, m, ret))
    ELSE AfterOperation(s1, ret, operator)

performOperation(s, operator, motion, ret) ==
    LET Normalized(m) ==
            Operate(WriteRegister(s, m.linewise, RegisterTextOf(s.text, m)), operator, m, ret)
    IN  Normalized(NormalizeMotion(motion))

\* faulty variant of performAfterEdit: a changed range that includes the first line
\* gets no new line
performAfterEditUnlessFirst(s, task) ==
    LET s1 == setMode(s, IF task.operator = "c" THEN "Insert" ELSE "Normal", TRUE)
        next(op) == [task EXCEPT !.cont = "performAfterCommand", !.op = op]
    IN  IF task.linewise /\ task.operator = "c" /\ task.lastLine /\ ~task.firstLine
        THEN Suspend(s1, next("insertLineAfter"))
        ELSE IF task.linewise /\ task.operator = "c" /\ ~task.lastLine /\ ~task.firstLine
        THEN Suspend(s1, next("insertLineBefore"))
        ELSE IF task.linewise /\ task.operator = "d" /\ task.lastLine
        THEN Suspend(s1, next("cursorHome"))
        ELSE AfterOperation(cleanSelection(s1), task.ret, task.operator)

\* performOperation after its edit settled
performAfterEdit(s, task) ==
    LET s1 == setMode(s, IF task.operator = "c" THEN "Insert" ELSE "Normal", TRUE)
        next(op) == [task EXCEPT !.cont = "performAfterCommand", !.op = op]
    IN  IF task.linewise /\ task.operator = "c" /\ task.lastLine /\ ~task.firstLine
        THEN Suspend(s1, next("insertLineAfter"))
        ELSE IF task.linewise /\ task.operator = "c" /\ ~task.lastLine
        THEN Suspend(s1, next("insertLineBefore"))
        ELSE IF task.linewise /\ task.operator = "d" /\ task.lastLine
        THEN Suspend(s1, next("cursorHome"))
        ELSE AfterOperation(cleanSelection(s1), task.ret, task.operator)

\* performOperation after insertLineAfter / insertLineBefore / cursorHome settled
performAfterCommand(s, task) ==
    AfterOperation(cleanSelection(s), task.ret, task.operator)

(***************************************************************************)
(* Vim.calculateMotion: marks and ; , on top of the motion calculator      *)
(***************************************************************************)
MotionMark(s, m, index) ==
    IF m.target \notin DOMAIN s.marks \/ ~s.marks[m.target].valid THEN NoMotion
    ELSE LET mark == s.marks[m.target]
             linewise == m.name = "'"
         IN  IF linewise /\ ~ValidLine(s.text, mark.line) THEN ThrownMotion
             ELSE ToLineColumn(s.text, index, mark.line,
                               IF linewise
                               THEN firstNonWhitespaceCharacterIndex(s.text, mark.line)
                               ELSE mark.character,
                               FALSE, linewise)

FlipLineSearch(c) ==
    CASE c = "t" -> "T" [] c = "T" -> "t" [] c = "f" -> "F" [] c = "F" -> "f"

MotionRepeatFind(s, m, index) ==
    IF ~s.lastLineSearch.set THEN NoMotion
    ELSE LET lineMotion == IF m.name = "," THEN FlipLineSearch(s.lastLineSearch.motion)
                           ELSE s.lastLineSearch.motion
             \* calculateMotion on the remembered f / t / F / T: its find branch
             again(count) ==
                 MotionFind(s.text, MotionAction(lineMotion, count, s.lastLineSearch.target),
                            index)
             \* a t / T that did not move is calculated again with one more;
             \* calculatedMotion.start is read also when the result is null
             Checked(calculatedMotion) ==
                 IF ToLowerCase(lineMotion) # "t" THEN calculatedMotion
                 ELSE IF calculatedMotion.kind # "ok" THEN ThrownMotion
                 ELSE IF calculatedMotion.start = calculatedMotion.end
                 THEN again(m.count + 1)
                 ELSE calculatedMotion
         IN  Checked(again(m.count))

VimCalculateMotion(s, m, index) ==
    IF m.name \in {Backtick, "'"} THEN MotionMark(s, m, index)
    ELSE IF m.name \in {";", ","} THEN MotionRepeatFind(s, m, index)
    ELSE calculateMotion(s.text, m, index)

(***************************************************************************)
(* Vim.doNormalAction                                                      *)
(***************************************************************************)
Repeat(txt, n) == [i \in 1..(n * Len(txt)) |-> txt[((i - 1) % Len(txt)) + 1]]

RECURSIVE StripTrailingNewlines(_)
StripTrailingNewlines(txt) ==
    IF txt # <<>> /\ txt[Len(txt)] = NL
    THEN StripTrailingNewlines(SubSeq(txt, 1, Len(txt) - 1))
    ELSE txt

doNormalMotion(s, command) ==
    LET Move(motion) ==
            IF motion.kind = "exc" THEN Moved(s, TRUE, motion)
            ELSE IF motion.kind = "ok"
            THEN Moved(setMode(SetSelection(s, motion.end, motion.end), "Normal", TRUE),
                       FALSE, motion)
            ELSE Moved(setMode(s, "Normal", TRUE), FALSE, motion)
    IN  Move(VimCalculateMotion(s, command, selStart(s)))

doNormalChangeMode(s, command) ==
    LET At(p) ==
            CASE command.name = "i" -> setMode(s, "Insert", TRUE)
              [] command.name = "I" ->
                    setMode(SetCursorAt(s, p.line,
                                        firstNonWhitespaceCharacterIndex(s.text, p.line)),
                            "Insert", TRUE)
              [] command.name = "a" ->
                    setMode(SetCursorAt(s, p.line, p.character + 1), "Insert", TRUE)
              [] command.name = "A" ->
                    setMode(SetCursorAt(s, p.line, LineLength(s.text, p.line)), "Insert", TRUE)
              [] command.name = "o" ->
                    Suspend(setMode(s, "Insert", TRUE),
                            Task("done", "insertLineAfter", 0, 0, <<>>))
              [] command.name = "O" ->
                    Suspend(setMode(s, "Insert", TRUE),
                            Task("done", "insertLineBefore", 0, 0, <<>>))
              [] command.name = "gI" -> setMode(SetCursorAt(s, p.line, 0), "Insert", TRUE)
              [] command.name = "v" -> setMode(s, "Visual", TRUE)
              [] OTHER -> setMode(s, "Normal", TRUE)
    IN  At(positionAt(s.text, selStart(s)))

doNormalOperator(s, command) ==
    setMode([s EXCEPT !.operatorPending = command.name,
                      !.operatorCount = s.enteredCount,
                      !.enteredCount = <<>>],
            "OperatorPending", FALSE)

doNormalReplace(s, command) ==
    LET At(p, from) ==
            IF p.character + command.count <= LineLength(s.text, p.line)
            THEN Suspend(s, [Task("replaceAfterEdit", "replace", from, from + command.count,
                                  Repeat(<<command.name>>, command.count))
                             EXCEPT !.line = p.line, !.character = p.character,
                                    !.count = command.count])
            ELSE setMode(s, "Normal", TRUE)
    IN  At(positionAt(s.text, selStart(s)), selStart(s))

replaceAfterEdit(s, task) ==
    setMode(SetCursorAt(s, task.line, task.character + task.count - 1), "Normal", TRUE)

\* x and s: the range may run past the line end; the host clamps it to the line
doNormalDeleteChars(s, instant) ==
    LET At(p) ==
            Suspend(s, [Task("deleteCharsAfterEdit", "delete", selStart(s),
                             offsetAt(s.text, p.line, p.character + instant.count), <<>>)
                        EXCEPT !.operator = instant.name])
    IN  At(positionAt(s.text, selStart(s)))

deleteCharsAfterEdit(s, task) ==
    cleanSelection(setMode(s, IF task.operator = "x" THEN "Normal" ELSE "Insert", TRUE))

doNormalDeleteBefore(s, instant) ==
    Suspend(s, Task("deleteBeforeAfterEdit", "delete",
                    selStart(s) - Min(instant.count, positionAt(s.text, selStart(s)).character),
                    selStart(s), <<>>))

deleteBeforeAfterEdit(s, task) == setMode(s, "Normal", TRUE)

\* D and C: from the cursor to the end of the line count - 1 lines below
doNormalToLineEnd(s, instant) ==
    LET Through(endLineNumber) ==
            IF ~ValidLine(s.text, endLineNumber) THEN R(s, TRUE)
            ELSE R(performOperation(s, ToLowerCase(instant.name),
                                    Motion(selStart(s), LineEnd(s.text, endLineNumber),
                                           FALSE, FALSE),
                                    "none"), FALSE)
    IN  Through(Min(positionAt(s.text, selStart(s)).line + instant.count - 1,
                    lineCount(s.text) - 1))

doNormalLines(s, instant, operator, ret) ==
    LET On(lineMotion) ==
            IF lineMotion.kind # "ok" THEN R(s, TRUE)
            ELSE R(performOperation(s, operator, lineMotion, ret), FALSE)
    \* calculateMotion on a "line" motion: its line branch
    IN  On(MotionLine(s.text, MotionAction("line", instant.count, Null), selStart(s)))

\* p after the last line starts its text with a line break and drops the
\* trailing ones; the cursor goes to the start of the pasted text
doNormalPasteLinewise(s, instant, reg, regText) ==
    LET Insert(insertOffset, txt, cursor) ==
            Suspend(s, [Task("pasteLinewiseAfterEdit", "insert", insertOffset, insertOffset,
                             txt)
                        EXCEPT !.line = cursor.line, !.character = cursor.character])
        Below(p, insertOffset) ==
            IF p.line = lineCount(s.text) - 1
            THEN Insert(insertOffset, <<NL>> \o StripTrailingNewlines(regText),
                        [line |-> p.line + 1, character |-> 0])
            ELSE Insert(insertOffset, regText, positionAt(s.text, insertOffset))
        Above(insertOffset) ==
            Insert(insertOffset, regText, positionAt(s.text, insertOffset))
        At(p) ==
            IF instant.name = "P" THEN Above(LineStart(s.text, p.line))
            ELSE Below(p, offsetAt(s.text, p.line + 1, 0))
    IN  At(positionAt(s.text, selStart(s)))

pasteLinewiseAfterEdit(s, task) ==
    setMode(SetCursorAt(s, task.line, task.character), "Normal", TRUE)

doNormalPasteCharwise(s, instant, regText) ==
    LET Insert(p, character, insertOffset) ==
            Suspend(s, [Task("pasteCharwiseAfterEdit", "insert", insertOffset, insertOffset,
                             regText)
                        EXCEPT !.line = p.line, !.character = character])
        Column(p, character) == Insert(p, character, offsetAt(s.text, p.line, character))
        At(p) == Column(p, IF instant.name = "P" THEN p.character ELSE p.character + 1)
    IN  At(positionAt(s.text, selStart(s)))

\* the cursor goes to the insert position when the text holds a line break and to
\* the last inserted character otherwise; translate throws on a negative column
pasteCharwiseAfterEdit(s, task) ==
    IF \E i \in 1..Len(task.txt) : task.txt[i] = NL
    THEN setMode(SetCursorAt(s, task.line, task.character), "Normal", TRUE)
    ELSE IF task.character + Len(task.txt) - 1 < 0 THEN s
    ELSE setMode(SetCursorAt(s, task.line, task.character + Len(task.txt) - 1),
                 "Normal", TRUE)

doNormalPaste(s, instant) ==
    IF instant.register \notin DOMAIN s.registers THEN setMode(s, "Normal", TRUE)
    ELSE LET From(reg, regText) ==
                 IF reg.linewise THEN doNormalPasteLinewise(s, instant, reg, regText)
                 ELSE doNormalPasteCharwise(s, instant, regText)
         IN  From(s.registers[instant.register],
                  Repeat(s.registers[instant.register].text, instant.count))

doNormalSetMark(s, instant) ==
    LET At(p) ==
            setMode([s EXCEPT !.marks = MapPut(s.marks, instant.target,
                                               Mark(p.line, p.character))],
                    "Normal", TRUE)
    IN  At(positionAt(s.text, selStart(s)))

doNormalInstant(s, instant) ==
    CASE instant.name = "u" -> R(Suspend(s, Task("undoAfter", "undo", 0, 0, <<>>)), FALSE)
      [] instant.name \in {"x", "s"} -> R(doNormalDeleteChars(s, instant), FALSE)
      [] instant.name = "X" -> R(doNormalDeleteBefore(s, instant), FALSE)
      [] instant.name \in {"D", "C"} -> doNormalToLineEnd(s, instant)
      \* Y yanks and S changes the count lines from the cursor line
      [] instant.name \in {"Y", "S"} ->
            doNormalLines(s, instant, IF instant.name = "Y" THEN "y" ELSE "c",
                          IF instant.name = "Y" THEN "Y" ELSE "none")
      [] instant.name \in {"P", "p"} -> R(doNormalPaste(s, instant), FALSE)
      [] instant.name = "m" -> R(doNormalSetMark(s, instant), FALSE)
      [] OTHER -> R(s, FALSE)

undoAfter(s, task) == setMode(s, "Normal", TRUE)

doNormalAction(s, command) ==
    CASE command.type = "null" -> R(s, TRUE)
      [] command.type = "motion" -> doNormalMotion(s, command)
      [] command.type = "changeMode" -> R(doNormalChangeMode(s, command), FALSE)
      [] command.type = "operator" -> R(doNormalOperator(s, command), FALSE)
      [] command.type = "replace" -> R(doNormalReplace(s, command), FALSE)
      [] command.type = "instant" -> doNormalInstant(s, command)
      [] OTHER -> R(s, FALSE)

(***************************************************************************)
(* Jump index: setToLetterGroups and Vim.jumpKey                           *)
(***************************************************************************)
\* the ascending sequence of the elements of a finite set of numbers
RECURSIVE Ascending(_)
Ascending(S) ==
    IF S = {} THEN <<>>
    ELSE LET m == CHOOSE x \in S : \A y \in S : x <= y
         IN  <<m>> \o Ascending(S \ {m})

\* faulty variant of setToLetterGroups: the labels do not wrap around, and the
\* matches after the 26th get no group
setToLetterGroupsNoWrap(indexSet) ==
    [k \in 1..26 |-> IF k <= Len(indexSet) THEN <<indexSet[k]>> ELSE <<>>]

\* group number k (1 for A, ..., 26 for Z) takes every 26th element from the k-th
setToLetterGroups(indexSet) ==
    [k \in 1..26 |->
        LET picks == {i \in 1..Len(indexSet) : (i - 1) % 26 = k - 1}
            order == Ascending(picks)
        IN  [j \in 1..Len(order) |-> indexSet[order[j]]]]

LetterNumber(key) ==
    IF \E i \in 1..26 : UpperLetters[i] = key
    THEN CHOOSE i \in 1..26 : UpperLetters[i] = key
    ELSE 0

\* new RegExp(escapeRegExp(key), "ig"): every occurrence, whatever its case
searchMatches(t, key) ==
    Ascending({i \in 0..(Len(t) - 1) : ToUpperCase(t[i + 1]) = ToUpperCase(key)})

\* faulty variant of jumpKey: a label whose group holds several matches jumps
\* to the first of them
jumpKeyFirstOfGroup(s, key0) ==
    LET Narrow(newIndexSet) ==
            IF Len(newIndexSet) = 0
            THEN [s |-> [setMode(s, "Normal", TRUE) EXCEPT !.indexSet = NoIndexSet,
                                                           !.pseudoMode = Null],
                  cmd |-> NoAction]
            ELSE [s |-> [s EXCEPT !.indexSet = NoIndexSet],
                  cmd |-> JumpAction(newIndexSet[1])]
        Group(n) == Narrow(IF n = 0 THEN <<>> ELSE s.indexSet.groups[n])
        Jump(key) ==
            IF ~s.indexSet.active
            THEN [s |-> [s EXCEPT !.indexSet =
                            [active |-> TRUE,
                             groups |-> setToLetterGroups(searchMatches(s.text, key))]],
                  cmd |-> NoAction]
            ELSE Group(LetterNumber(key))
    IN  Jump(ToUpperCase(key0))

\* faulty variant of jumpKey: a label whose group holds several matches keeps
\* the index as it is
jumpKeyKeepingIndex(s, key0) ==
    LET Narrow(newIndexSet) ==
            IF Len(newIndexSet) = 0
            THEN [s |-> [setMode(s, "Normal", TRUE) EXCEPT !.indexSet = NoIndexSet,
                                                           !.pseudoMode = Null],
                  cmd |-> NoAction]
            ELSE IF Len(newIndexSet) = 1
            THEN [s |-> [s EXCEPT !.indexSet = NoIndexSet],
                  cmd |-> JumpAction(newIndexSet[1])]
            ELSE [s |-> s, cmd |-> NoAction]
        Group(n) == Narrow(IF n = 0 THEN <<>> ELSE s.indexSet.groups[n])
        Jump(key) ==
            IF ~s.indexSet.active
            THEN [s |-> [s EXCEPT !.indexSet =
                            [active |-> TRUE,
                             groups |-> setToLetterGroups(searchMatches(s.text, key))]],
                  cmd |-> NoAction]
            ELSE Group(LetterNumber(key))
    IN  Jump(ToUpperCase(key0))

\* returns the state and the jump motion, if one was resolved
jumpKey(s, key0) ==
    LET Narrow(newIndexSet) ==
            IF Len(newIndexSet) = 0
            THEN [s |-> [setMode(s, "Normal", TRUE) EXCEPT !.indexSet = NoIndexSet,
                                                           !.pseudoMode = Null],
                  cmd |-> NoAction]
            ELSE IF Len(newIndexSet) = 1
            THEN [s |-> [s EXCEPT !.indexSet = NoIndexSet],
                  cmd |-> JumpAction(newIndexSet[1])]
            ELSE [s |-> [s EXCEPT !.indexSet = [active |-> TRUE,
                                                groups |-> setToLetterGroups(newIndexSet)]],
                  cmd |-> NoAction]
        Group(n) == Narrow(IF n = 0 THEN <<>> ELSE s.indexSet.groups[n])
        Jump(key) ==
            IF ~s.indexSet.active
            THEN [s |-> [s EXCEPT !.indexSet =
                            [active |-> TRUE,
                             groups |-> setToLetterGroups(searchMatches(s.text, key))]],
                  cmd |-> NoAction]
            ELSE Group(LetterNumber(key))
    IN  Jump(ToUpperCase(key0))

(***************************************************************************)
(* Vim.getNormalCommand                                                    *)
(***************************************************************************)
ObjectKeys == {"w", "W", "s", "p", "]", "[", ")", "(", "<", ">", "t", "{", "}",
               "\"", "'", "b", "B"}
VisualInstantKeys == {"d", "c", "C", "R", "S", "s", "x", "u", "U", "y", "Y"}
\* faulty variant of CountKeys: 0 is a count digit like the others
AnyDigitKeys == {"0", "1", "2", "3", "4", "5", "6", "7", "8", "9"}
CountKeys == {"1", "2", "3", "4", "5", "6", "7", "8", "9"}
MotionKeys == {"0", "w", "W", "e", "E", "h", "j", "k", "l", "$", "^", "b", "B", "G",
               "-", NL, "+", "_", ";", ",", "%"}
FindKeys == {"f", "F", "t", "T"}
PseudoModeKeys == {"g", "r", "m", "Q", "\"", "'", Backtick}
ChangeModeKeys == {"i", "I", "a", "A", "o", "O", "v", "V"}
OperatorKeys == {"c", "d", "y"}
NormalInstantKeys == {"u", "p", "P", "x", "X", "C", "D", "Y", "S", "s"}

\* what getNormalCommand returns: the state it leaves and the Action (or null)
Parsed(s, cmd) == [s |-> s, cmd |-> cmd]

\* . in Normal mode: the replay is started and not awaited, then the state is reset
RepeatLastAction(s) == setMode(doNormalAction(s, s.lastAction).s, "Normal", TRUE)

\* the part of getNormalCommand below the pseudo-modes
ResolveKey(s, key) ==
    IF s.mode = "OperatorPending" /\ key = s.operatorPending
    THEN Parsed(s, MotionAction("line", NumberOr(s.enteredCount, 1), Null))
    ELSE IF s.mode = "Visual" /\ key \in VisualInstantKeys
    THEN Parsed(s, InstantAction(key, NumberOr(s.enteredCount, 1), s.registerTarget, Null))
    ELSE IF key \in CountKeys \/ (key = "0" /\ Len(s.enteredCount) > 0)
    THEN Parsed([s EXCEPT !.enteredCount = Append(s.enteredCount, key)], NoAction)
    ELSE IF key \in MotionKeys
    THEN Parsed(s, MotionAction(key,
                                NumberOr(s.enteredCount, IF key \in {"G", "%"} THEN 0 ELSE 1),
                                Null))
    ELSE IF key \in FindKeys
    THEN Parsed([s EXCEPT !.pseudoMode = "f", !.pseudoModeParameter = key], NoAction)
    ELSE IF key \in PseudoModeKeys
    THEN Parsed([s EXCEPT !.pseudoMode = key], NoAction)
    ELSE IF s.mode = "Normal" /\ key \in ChangeModeKeys
    THEN Parsed(s, ChangeModeAction(key, NumberOr(s.enteredCount, 1)))
    ELSE IF s.mode = "Normal" /\ key \in OperatorKeys
    THEN Parsed(s, OperatorAction(key))
    ELSE IF s.mode = "Normal" /\ key \in NormalInstantKeys
    THEN Parsed(s, InstantAction(key, NumberOr(s.enteredCount, 1), s.registerTarget, Null))
    ELSE IF s.mode = "Normal" /\ key = "."
    THEN Parsed(RepeatLastAction(s), NoAction)
    ELSE IF s.mode \in {"Visual", "OperatorPending"} /\ key \in {"i", "a"}
    THEN Parsed([s EXCEPT !.pseudoMode = "o", !.objectRange = key], NoAction)
    ELSE Parsed(setMode(s, "Normal", TRUE), NoAction)

\* the pseudo-mode branches: the key is the pending command's argument
ResolvePseudoMode(s, cleared, key) ==
    CASE s.pseudoMode = "f" ->
            Parsed([cleared EXCEPT !.lastLineSearch =
                        [set |-> TRUE, motion |-> s.pseudoModeParameter, target |-> key]],
                   MotionAction(s.pseudoModeParameter, NumberOr(s.enteredCount, 1), key))
      [] s.pseudoMode = "g" ->
            IF key = "g" THEN Parsed(cleared, MotionAction("gg", NumberOr(s.enteredCount, 0), Null))
            ELSE IF key = "I" THEN Parsed(cleared, ChangeModeAction("gI", 1))
            ELSE Parsed(setMode(cleared, "Normal", TRUE), NoAction)
      [] s.pseudoMode = "r" ->
            Parsed(cleared, ReplaceAction(key, NumberOr(s.enteredCount, 1)))
      [] s.pseudoMode = "Q" -> jumpKey(s, key)
      [] s.pseudoMode = "\"" -> Parsed([cleared EXCEPT !.registerTarget = key], NoAction)
      [] s.pseudoMode = "m" -> Parsed(cleared, InstantAction("m", 1, s.registerTarget, key))
      [] s.pseudoMode \in {Backtick, "'"} -> Parsed(cleared, MotionAction(s.pseudoMode, 1, key))
      [] s.pseudoMode = "o" ->
            Parsed(cleared, ObjectAction(s.objectRange, key, NumberOr(s.enteredCount, 1)))

\* a pending pseudo-mode takes the key, except that the text-object pseudo-mode
\* with a key that names no object only clears itself: the key then falls
\* through to the rules below
getNormalCommand(s, key) ==
    IF s.pseudoMode \in {"f", "g", "r", "Q", "\"", "m", Backtick, "'"}
       \/ (s.pseudoMode = "o" /\ key \in ObjectKeys)
    THEN ResolvePseudoMode(s, [s EXCEPT !.pseudoMode = Null], key)
    ELSE ResolveKey(IF s.pseudoMode = "o" THEN [s EXCEPT !.pseudoMode = Null] ELSE s, key)

(***************************************************************************)
(* Text objects: Vim.findNextChar, findLeftRightRange, calculateObject     *)
(***************************************************************************)
NoRange == [kind |-> "null", start |-> 0, end |-> 0]
ThrownRange == [kind |-> "exc", start |-> 0, end |-> 0]
Range(start, end) == [kind |-> "ok", start |-> start, end |-> end]

\* the index of the nearest `character` from startIndex in `direction`, or -1
RECURSIVE findNextChar(_, _, _, _, _)
findNextChar(t, character, i, direction, crossNewlines) ==
    IF ~(i > 0 /\ i < Len(t)) THEN -1
    ELSE IF ~crossNewlines /\ t[i + 1] = NL THEN -1
    ELSE IF t[i + 1] = character THEN i
    ELSE findNextChar(t, character, i + direction, direction, crossNewlines)

findLeftRightRange(t, leftCharacter, rightCharacter, index, includeEnclosing, crossNewlines) ==
    LET startIndex == findNextChar(t, leftCharacter, index, -1, crossNewlines)
        endIndex == findNextChar(t, rightCharacter, index, 1, crossNewlines)
    IN  IF startIndex = -1 THEN NoRange
        ELSE IF endIndex = -1 THEN NoRange
        ELSE IF includeEnclosing THEN Range(startIndex, endIndex)
        ELSE Range(startIndex + 1, endIndex - 1)

findEnclosedRange(t, character, index, includeEnclosing, crossNewlines) ==
    findLeftRightRange(t, character, character, index, includeEnclosing, crossNewlines)

\* a word object that leaves out the last character of the word
WordObjectShort(word) == Range(word.start, word.end - 1)

WordObject(word) == IF word.kind = "null" THEN ThrownRange ELSE Range(word.start, word.end)

calculateObject(t, object, index) ==
    CASE object.name = "w" -> WordObject(getWord(t, index))
      [] object.name = "W" -> WordObject(getWORD(t, index))
      [] object.name \in {"\"", "'", Backtick} ->
            findEnclosedRange(t, object.name, index, object.range = "a", FALSE)
      [] object.name \in {"[", "]"} ->
            findLeftRightRange(t, "[", "]", index, object.range = "a", TRUE)
      [] object.name \in {"(", ")", "b"} ->
            findLeftRightRange(t, "(", ")", index, object.range = "a", TRUE)
      [] object.name \in {"{", "}", "B"} ->
            findLeftRightRange(t, "{", "}", index, object.range = "a", TRUE)
      [] object.name \in {"<", ">"} ->
            findLeftRightRange(t, "<", ">", index, object.range = "a", TRUE)
      [] OTHER -> NoRange

(***************************************************************************)
(* Key handlers                                                            *)
(***************************************************************************)
\* what a key handler returns: the state, whether it threw, the Action it
\* resolved (with the count and motion it executed) and the calculated motion
Handled(s, exc, cmd, motion) == [s |-> s, exc |-> exc, cmd |-> cmd, motion |-> motion]

\* the range an object command calculated, recorded like a motion's
Calculated(object) ==
    [kind |-> object.kind, start |-> object.start, end |-> object.end,
     inclusive |-> TRUE, linewise |-> FALSE]

\* <esc>: every selection collapses onto its active end, and the state is reset
escapeKey(s) ==
    Handled(setMode(CollapseSelections(s), "Normal", TRUE),
            FALSE, NoAction, NoMotion)

\* faulty variant of OperatorMotionCommand: the two counts are added
OperatorMotionCommandSum(s, command) ==
    LET sum == IF Falsy(s.enteredCount) \/ Falsy(s.operatorCount)
               THEN NumberOr(s.enteredCount, 1) * NumberOr(s.operatorCount, 1)
               ELSE NumberOr(s.enteredCount, 1) + NumberOr(s.operatorCount, 1)
        count == IF command.name \in {"G", "gg", "%"}
                    /\ Falsy(s.enteredCount) /\ Falsy(s.operatorCount)
                 THEN 0 ELSE sum
        name == IF s.operatorPending = "c" /\ command.name = "w" THEN "e"
                ELSE IF s.operatorPending = "c" /\ command.name = "W" THEN "E"
                ELSE command.name
    IN  [command EXCEPT !.count = count, !.name = name]

\* the count and motion an operator executes: the two counts are multiplied,
\* and cw / cW are calculated as ce / cE
OperatorMotionCommand(s, command) ==
    LET product == NumberOr(s.enteredCount, 1) * NumberOr(s.operatorCount, 1)
        count == IF command.name \in {"G", "gg", "%"}
                    /\ Falsy(s.enteredCount) /\ Falsy(s.operatorCount)
                 THEN 0 ELSE product
        name == IF s.operatorPending = "c" /\ command.name = "w" THEN "e"
                ELSE IF s.operatorPending = "c" /\ command.name = "W" THEN "E"
                ELSE command.name
    IN  [command EXCEPT !.count = count, !.name = name]

\* faulty variant of operatorPendingOperate: the operator runs on whatever the
\* calculation returned
operatorPendingOperateUnchecked(s, motionCommand, motion) ==
    IF motion.kind = "exc" THEN Handled(s, TRUE, motionCommand, motion)
    ELSE Handled(performOperation(s, s.operatorPending, motion, "none"),
                 FALSE, motionCommand, motion)

\* the operator on the calculated motion; no motion abandons the command
operatorPendingOperate(s, motionCommand, motion) ==
    IF motion.kind = "exc" THEN Handled(s, TRUE, motionCommand, motion)
    ELSE IF motion.kind = "null"
    THEN Handled(setMode(s, "Normal", TRUE), FALSE, motionCommand, motion)
    ELSE IF s.operatorPending \in {"c", "d", "y"}
    THEN Handled(performOperation(s, s.operatorPending, motion, "none"),
                 FALSE, motionCommand, motion)
    ELSE Handled(setMode(s, "Normal", TRUE), FALSE, motionCommand, motion)

operatorPendingMotion(s, command) ==
    LET With(motionCommand) ==
            operatorPendingOperate(s, motionCommand,
                                   VimCalculateMotion(s, motionCommand, selStart(s)))
    IN  With(OperatorMotionCommand(s, command))

operatorPendingObject(s, command) ==
    LET Delete(object, from) ==
            Handled(Suspend(SetSelection(s, from, from),
                            Task("objectAfterEdit", "delete", object.start, object.end + 1,
                                 <<>>)),
                    FALSE, command, Calculated(object))
        On(object) ==
            IF object.kind = "exc" THEN Handled(s, TRUE, command, Calculated(object))
            ELSE IF object.kind = "ok" THEN Delete(object, ClampOffset(s.text, object.start))
            ELSE Handled(setMode(s, "Normal", TRUE), FALSE, command, Calculated(object))
    IN  On(calculateObject(s.text, command, selStart(s)))

\* the pending operator is read when the edit has settled
objectAfterEdit(s, task) ==
    cleanSelection(setMode(s, IF s.operatorPending = "c" THEN "Insert" ELSE "Normal", TRUE))

keyOperatorPending(s, key) ==
    LET On(parsed) ==
            IF parsed.cmd.type = "null" THEN Handled(parsed.s, FALSE, NoAction, NoMotion)
            ELSE IF parsed.cmd.type = "motion"
            THEN operatorPendingMotion(parsed.s, parsed.cmd)
            ELSE IF parsed.cmd.type = "object"
            THEN operatorPendingObject(parsed.s, parsed.cmd)
            ELSE Handled(parsed.s, FALSE, parsed.cmd, NoMotion)
    IN  IF key = Esc THEN escapeKey(s) ELSE On(getNormalCommand(s, key))

MapText(txt, f(_)) == [i \in 1..Len(txt) |-> f(txt[i])]

visualMotion(s, command) ==
    LET Extend(motion) ==
            IF motion.kind = "exc" THEN Handled(s, TRUE, command, motion)
            ELSE IF motion.kind = "ok"
            THEN Handled(SetSelection(s, s.anchor,
                                      IF motion.inclusive THEN motion.end + 1
                                      ELSE motion.end),
                         FALSE, command, motion)
            ELSE Handled(s, FALSE, command, motion)
    IN  Extend(VimCalculateMotion(s, command, s.active))

\* x is d, X is D and R is C
VisualOperatorOf(instant) ==
    CASE instant = "x" -> "d" [] instant = "X" -> "D" [] instant = "R" -> "C"
      [] OTHER -> instant

visualInstant(s, command) ==
    LET On(instant, motion) ==
            IF instant \in {"d", "c", "y", "D", "C", "Y"}
            THEN Handled(performOperation(s, ToLowerCase(instant),
                                          [motion EXCEPT !.linewise =
                                                             instant \in {"D", "C", "Y"}],
                                          IF instant \in {"d", "c", "y"}
                                          THEN "visualCharwise" ELSE "visualLinewise"),
                         FALSE, command, motion)
            ELSE IF instant \in {"u", "U"}
            THEN Handled(Suspend(s, Task("visualAfterEdit", "replace",
                                         selStart(s), selEnd(s),
                                         IF instant = "U"
                                         THEN MapText(SubText(s.text, selStart(s), selEnd(s)),
                                                      ToUpperCase)
                                         ELSE MapText(SubText(s.text, selStart(s), selEnd(s)),
                                                      ToLowerCase))),
                         FALSE, command, NoMotion)
            ELSE Handled(s, FALSE, command, NoMotion)
    IN  On(VisualOperatorOf(command.name), Motion(selStart(s), selEnd(s), FALSE, FALSE))

visualReplace(s, command) ==
    LET old == SubText(s.text, selStart(s), selEnd(s))
        txt == [i \in 1..Len(old) |-> IF old[i] \in {NL, "\r"} THEN old[i] ELSE command.name]
    IN  Handled(Suspend(s, Task("visualAfterEdit", "replace", selStart(s), selEnd(s), txt)),
                FALSE, command, NoMotion)

\* after the edit of u, U and r: the selection collapses onto its start
visualAfterEdit(s, task) ==
    setMode(SetSelection(s, selStart(s), selStart(s)), "Normal", TRUE)

visualObject(s, command) ==
    LET Extend(object, lo, hi) ==
            Handled(SetSelection(s, Min(selStart(s), lo), Max(selEnd(s), hi)),
                    FALSE, command, Calculated(object))
        On(object) ==
            IF object.kind = "exc" THEN Handled(s, TRUE, command, Calculated(object))
            ELSE IF object.kind = "ok"
            THEN Extend(object, ClampOffset(s.text, Min(object.start, object.end)),
                        ClampOffset(s.text, Max(object.start, object.end)))
            ELSE Handled(s, FALSE, command, Calculated(object))
    IN  On(calculateObject(s.text, command, s.active))

visualKey(s, key) ==
    LET On(parsed) ==
            CASE parsed.cmd.type = "null" -> Handled(parsed.s, FALSE, NoAction, NoMotion)
              [] parsed.cmd.type = "motion" -> visualMotion(parsed.s, parsed.cmd)
              [] parsed.cmd.type = "instant" -> visualInstant(parsed.s, parsed.cmd)
              [] parsed.cmd.type = "replace" -> visualReplace(parsed.s, parsed.cmd)
              [] parsed.cmd.type = "object" -> visualObject(parsed.s, parsed.cmd)
              [] OTHER -> Handled(parsed.s, FALSE, parsed.cmd, NoMotion)
    IN  IF key = Esc THEN escapeKey(s) ELSE On(getNormalCommand(s, key))

\* doNormalAction is started and not awaited; lastAction is set right after
normalKey(s, key) ==
    LET Started(command, done) ==
            Handled([done.s EXCEPT !.lastAction = command], done.exc, command, done.motion)
        On(parsed) ==
            IF parsed.cmd.type = "null" THEN Handled(parsed.s, FALSE, NoAction, NoMotion)
            ELSE Started(parsed.cmd, doNormalAction(parsed.s, parsed.cmd))
    IN  IF key = Esc THEN escapeKey(s) ELSE On(getNormalCommand(s, key))

\* Insert mode: <esc> steps one column left (not below 0); any other key is typed
\* faulty variant of insertKey: <esc> leaves the cursor where it is
insertKeyInPlace(s, key) ==
    IF key = Esc
    THEN Handled(setMode(SetSelection(s, selStart(s), selStart(s)), "Normal", TRUE),
                 FALSE, NoAction, NoMotion)
    ELSE Handled(Suspend(s, Task("done", "type", 0, 0, <<key>>)), FALSE, NoAction, NoMotion)

insertKey(s, key) ==
    IF key = Esc
    THEN LET Left(p) ==
                 Handled(setMode(SetCursorAt(s, p.line, Max(p.character - 1, 0)),
                                 "Normal", TRUE),
                         FALSE, NoAction, NoMotion)
         IN  Left(positionAt(s.text, selStart(s)))
    ELSE Handled(Suspend(s, Task("done", "type", 0, 0, <<key>>)), FALSE, NoAction, NoMotion)

key(s, k) ==
    CASE s.mode = "Normal" ->
            normalKey([s EXCEPT !.enteredText = Append(s.enteredText, k)], k)
      [] s.mode = "Jump" ->
            Handled(jumpKey([s EXCEPT !.enteredText = Append(s.enteredText, k)], k).s,
                    FALSE, NoAction, NoMotion)
      [] s.mode = "OperatorPending" ->
            keyOperatorPending([s EXCEPT !.enteredText = Append(s.enteredText, k)], k)
      [] s.mode = "Insert" -> insertKey(s, k)
      [] s.mode = "Visual" -> visualKey(s, k)
      [] OTHER -> Handled(setMode(s, "Normal", TRUE), FALSE, NoAction, NoMotion)

\* the code that runs when the host operation of a suspended command settled
resume(s, task) ==
    CASE task.cont = "performAfterEdit" -> performAfterEdit(s, task)
      [] task.cont = "performAfterCommand" -> performAfterCommand(s, task)
      [] task.cont = "replaceAfterEdit" -> replaceAfterEdit(s, task)
      [] task.cont = "deleteCharsAfterEdit" -> deleteCharsAfterEdit(s, task)
      [] task.cont = "deleteBeforeAfterEdit" -> deleteBeforeAfterEdit(s, task)
      [] task.cont = "pasteLinewiseAfterEdit" -> pasteLinewiseAfterEdit(s, task)
      [] task.cont = "pasteCharwiseAfterEdit" -> pasteCharwiseAfterEdit(s, task)
      [] task.cont = "undoAfter" -> undoAfter(s, task)
      [] task.cont = "objectAfterEdit" -> objectAfterEdit(s, task)
      [] task.cont = "visualAfterEdit" -> visualAfterEdit(s, task)
      [] OTHER -> s

(***************************************************************************)
(* The state machine                                                       *)
(***************************************************************************)
VARIABLES
    \* the host editor: document text, selection, undo stops, and whether a
    \* selection-change notification is still to be delivered; of the secondary
    \* selections (multiple cursors) only whether each is empty is kept
    text, anchor, active, others, undoStack, selNotify,
    \* the fields of the Vim object
    mode, pseudoMode, pseudoModeParameter, operatorPending, objectRange,
    enteredCount, operatorCount, enteredText, lastAction, lastLineSearch,
    indexSet, registerTarget, registers, marks,
    \* the commands suspended on a host operation, oldest first
    tasks,
    \* history: the number of keys passed to key(), the last key with the Action
    \* and motion it resolved and whether it threw, the state before it, and how
    \* a host edit of its command failed, if one did
    nkeys, lastKey, lastCmd, lastMotion, threw, prev, editFailed

engine == <<text, anchor, active, others, undoStack, selNotify, mode, pseudoMode,
            pseudoModeParameter, operatorPending, objectRange, enteredCount,
            operatorCount, enteredText, lastAction, lastLineSearch, indexSet,
            registerTarget, registers, marks, tasks>>
history == <<nkeys, lastKey, lastCmd, lastMotion, threw, prev, editFailed>>
vars == <<engine, history>>

St ==
    [text |-> text, anchor |-> anchor, active |-> active, others |-> others,
     undoStack |-> undoStack,
     selNotify |-> selNotify, mode |-> mode, pseudoMode |-> pseudoMode,
     pseudoModeParameter |-> pseudoModeParameter, operatorPending |-> operatorPending,
     objectRange |-> objectRange, enteredCount |-> enteredCount,
     operatorCount |-> operatorCount, enteredText |-> enteredText,
     lastAction |-> lastAction, lastLineSearch |-> lastLineSearch,
     indexSet |-> indexSet, registerTarget |-> registerTarget,
     registers |-> registers, marks |-> marks, tasks |-> tasks]

Install(s) ==
    /\ text' = s.text
    /\ anchor' = s.anchor
    /\ active' = s.active
    /\ others' = s.others
    /\ undoStack' = s.undoStack
    /\ selNotify' = s.selNotify
    /\ mode' = s.mode
    /\ pseudoMode' = s.pseudoMode
    /\ pseudoModeParameter' = s.pseudoModeParameter
    /\ operatorPending' = s.operatorPending
    /\ objectRange' = s.objectRange
    /\ enteredCount' = s.enteredCount
    /\ operatorCount' = s.operatorCount
    /\ enteredText' = s.enteredText
    /\ lastAction' = s.lastAction
    /\ lastLineSearch' = s.lastLineSearch
    /\ indexSet' = s.indexSet
    /\ registerTarget' = s.registerTarget
    /\ registers' = s.registers
    /\ marks' = s.marks
    /\ tasks' = s.tasks

\* the Vim constructor sets mode, enteredCount, enteredText, lastAction, registers
\* and marks; every other field is still undefined.  The host document and the
\* cursor are the host's.
Constructed(doc) ==
    /\ text = doc.text
    /\ anchor = doc.cursor
    /\ active = doc.cursor
    /\ others = <<>>
    /\ undoStack = <<>>
    /\ selNotify = FALSE
    /\ mode = "Normal"
    /\ pseudoMode = Undefined
    /\ pseudoModeParameter = Undefined
    /\ operatorPending = Undefined
    /\ objectRange = Undefined
    /\ enteredCount = <<>>
    /\ operatorCount = <<>>
    /\ enteredText = <<>>
    /\ lastAction = NoAction
    /\ lastLineSearch = NoLineSearch
    /\ indexSet = NoIndexSet
    /\ registerTarget = Undefined
    /\ registers = EmptyMap
    /\ marks = EmptyMap
    /\ tasks = <<>>
    /\ nkeys = 0
    /\ lastKey = Null
    /\ lastCmd = NoAction
    /\ lastMotion = NoMotion
    /\ threw = FALSE
    /\ editFailed = "none"
    /\ prev = [mode |-> "none"]

\* the tasks a key started carry the key's number; key() awaits the handlers of
\* every mode but Normal, whose doNormalAction runs detached
Stamp(ts, n, awaited) ==
    [i \in 1..Len(ts) |-> IF ts[i].seq = 0
                          THEN [ts[i] EXCEPT !.seq = n, !.awaited = awaited]
                          ELSE ts[i]]

\* key(k) returned r: the state it left, and the history of the call
Returned(k, r) ==
    /\ Install([r.s EXCEPT !.tasks = Stamp(r.s.tasks, nkeys + 1, mode # "Normal")])
    /\ nkeys' = nkeys + 1
    /\ lastKey' = k
    /\ lastCmd' = r.cmd
    /\ lastMotion' = r.motion
    /\ threw' = r.exc
    /\ editFailed' = "none"
    /\ prev' = St

\* Vim.key(k)
Key(k) == Returned(k, key(St, k))

\* the host delivers a selection change the engine made: Vim.updateSelection
NotifySelection ==
    /\ selNotify
    /\ Install(updateSelection([St EXCEPT !.selNotify = FALSE]))
    /\ UNCHANGED history

\* the host applies the oldest pending operation (notifying documentChanged, and
\* updateSelection when the operation moved the selection), and the suspended
\* command runs on
Settle ==
    LET Notified(applied) ==
            IF applied.anchor # anchor \/ applied.active # active
            THEN updateSelection(applied) ELSE applied
        Applied(task) ==
            Install(resume(Notified(HostApply([St EXCEPT !.tasks = Tail(tasks)], task)),
                           task))
    IN  /\ tasks # <<>>
        /\ ~selNotify
        /\ Applied(Head(tasks))
        /\ UNCHANGED history

Idle == tasks = <<>> /\ ~selNotify

\* the edit the oldest suspended command awaits fails.  editor.edit either
\* rejects, and the rest of the command is not run (the exception ends in the
\* catch of key(), or in the detached promise of doNormalAction), or resolves
\* to false without having changed the document, and the command runs on
HostEditFails ==
    /\ tasks # <<>>
    /\ ~selNotify
    /\ Head(tasks).op \in {"delete", "replace", "insert"}
    /\ \/ /\ Install([St EXCEPT !.tasks = Tail(tasks)])
          /\ editFailed' = "rejected"
       \/ /\ Install(resume([St EXCEPT !.tasks = Tail(tasks)], Head(tasks)))
          /\ editFailed' = "refused"
    /\ UNCHANGED <<nkeys, lastKey, lastCmd, lastMotion, threw, prev>>

(***************************************************************************)
(* Specifications.  The host passes keys one at a time.  In Spec and       *)
(* SpecEdit a key is passed only when the previous command has settled;    *)
(* in SpecAsync a key is passed as soon as the promise of the previous     *)
(* key() has resolved, which is the most a caller of key() can wait for.   *)
(***************************************************************************)
Doc(txt, cursor) == [text |-> txt, cursor |-> cursor]

MaxKeys == 4

\* "ab (d" / "ef" with the cursor on b of the first line, and
\* "a" / "bc" / "d" / "e" / "f" with the cursor on b of the second line
Docs ==
    { Doc(<<"a", "b", " ", "(", "d", NL, "e", "f">>, 1),
      Doc(<<"a", NL, "b", "c", NL, "d", NL, "e", NL, "f">>, 2) }

ParserKeys == {Esc, "z", "2", "0", "d", "i", "v", "\"", "w", "f"}

EditKeys == {"3", "d", "y", "c", "w", "f", "t", ";", "%", "i", "b", "'"}

OverlapKeys == {Esc, "x", "2", "w", "i"}

Init == \E doc \in Docs : Constructed(doc)

KeyPress == Idle /\ nkeys < MaxKeys /\ \E k \in ParserKeys : Key(k)

Next == KeyPress \/ NotifySelection \/ Settle

Spec == Init /\ [][Next]_vars

EditKeyPress == Idle /\ nkeys < MaxKeys /\ \E k \in EditKeys : Key(k)

NextEdit == EditKeyPress \/ NotifySelection \/ Settle

SpecEdit == Init /\ [][NextEdit]_vars

\* a command key() is still waiting for
Awaited == \E i \in DOMAIN tasks : tasks[i].awaited

DetachedKeyPress ==
    /\ ~selNotify
    /\ ~Awaited
    /\ nkeys < MaxKeys
    /\ \E k \in OverlapKeys : Key(k)

NextAsync == DetachedKeyPress \/ NotifySelection \/ Settle

SpecAsync == Init /\ [][NextAsync]_vars

\* jump search: "ab" / "Acy", where a occurs twice and y once, and a line of
\* 28 a's, whose matches wrap around the 26 labels
ManyMatches == [i \in 1..28 |-> "a"]

JumpDocs ==
    { Doc(<<"a", "b", NL, "A", "c", "y">>, 1),
      Doc(ManyMatches, 3) }

JumpKeys == {Esc, "Q", "a", "b", "y", "1", "x"}

InitJump == \E doc \in JumpDocs : Constructed(doc)

JumpKeyPress == Idle /\ nkeys < MaxKeys /\ \E k \in JumpKeys : Key(k)

NextJump == JumpKeyPress \/ NotifySelection \/ Settle

SpecJump == InitJump /\ [][NextJump]_vars

\* whole lines: "ab" / "cd" and "a" / "bc" / "d" with the cursor on the first
\* character, and the single line "ab"
LineDocs ==
    { Doc(<<"a", "b", NL, "c", "d">>, 0),
      Doc(<<"a", NL, "b", "c", NL, "d">>, 0),
      Doc(<<"a", "b">>, 0) }

LineKeys == {"2", "d", "y", "p", "j", "k"}

InitLines == \E doc \in LineDocs : Constructed(doc)

LineKeyPress == Idle /\ nkeys < MaxKeys /\ \E k \in LineKeys : Key(k)

NextLines == LineKeyPress \/ NotifySelection \/ Settle

SpecLines == InitLines /\ [][NextLines]_vars

\* words and blanks: "abc def" from its first character, "a b" / "(c" from its
\* first character, "ab cd" from its last character, and the one word "ab"
WordDocs ==
    { Doc(<<"a", "b", "c", " ", "d", "e", "f">>, 0),
      Doc(<<"a", " ", "b", NL, "(", "c">>, 0),
      Doc(<<"a", "b", " ", "c", "d">>, 4),
      Doc(<<"a", "b">>, 1) }

WordKeys == {"d", "c", "i", "w", "2", "h", "l"}

InitWords == \E doc \in WordDocs : Constructed(doc)

WordKeyPress == Idle /\ nkeys < MaxKeys /\ \E k \in WordKeys : Key(k)

NextWords == WordKeyPress \/ NotifySelection \/ Settle

SpecWords == InitWords /\ [][NextWords]_vars

\* brackets: "(a(b)c)" from its outer "(", "((a)" with an outer "(" that has no
\* partner, and "[b" / "(])" with a pair that spans two lines
BracketDocs ==
    { Doc(<<"(", "a", "(", "b", ")", "c", ")">>, 0),
      Doc(<<"(", "(", "a", ")">>, 0),
      Doc(<<"[", "b", NL, "(", "]", ")">>, 0) }

BracketKeys == {"%", "l", "h", "j", "d", "c", "2"}

InitBrackets == \E doc \in BracketDocs : Constructed(doc)

BracketKeyPress == Idle /\ nkeys < MaxKeys /\ \E k \in BracketKeys : Key(k)

NextBrackets == BracketKeyPress \/ NotifySelection \/ Settle

SpecBrackets == InitBrackets /\ [][NextBrackets]_vars

\* the state m a leaves on a fresh engine (the mark a on offset markOffset, every
\* pending field reset), the cursor put on doc.cursor by the host since
Marked(doc, markOffset) ==
    /\ text = doc.text
    /\ anchor = doc.cursor
    /\ active = doc.cursor
    /\ others = <<>>
    /\ undoStack = <<>>
    /\ selNotify = FALSE
    /\ mode = "Normal"
    /\ pseudoMode = Null
    /\ pseudoModeParameter = Null
    /\ operatorPending = Null
    /\ objectRange = Null
    /\ enteredCount = <<>>
    /\ operatorCount = <<>>
    /\ enteredText = <<>>
    /\ lastAction = InstantAction("m", 1, "\"", "a")
    /\ lastLineSearch = NoLineSearch
    /\ indexSet = NoIndexSet
    /\ registerTarget = "\""
    /\ registers = EmptyMap
    /\ marks = MapPut(EmptyMap, "a",
                      Mark(positionAt(doc.text, markOffset).line,
                           positionAt(doc.text, markOffset).character))
    /\ tasks = <<>>
    /\ nkeys = 0
    /\ lastKey = Null
    /\ lastCmd = NoAction
    /\ lastMotion = NoMotion
    /\ threw = FALSE
    /\ editFailed = "none"
    /\ prev = [mode |-> "none"]

\* "ab" / "cd" / "ef" with the cursor on "c" or on "a"
MarkDocs ==
    { Doc(<<"a", "b", NL, "c", "d", NL, "e", "f">>, 3),
      Doc(<<"a", "b", NL, "c", "d", NL, "e", "f">>, 0) }

MarkKeys == {"m", "a", Backtick, "d", "j", "x", "i", NL}

InitMarks == \E doc \in MarkDocs : \E markOffset \in {0, 4, 6} : Marked(doc, markOffset)

MarkKeyPress == Idle /\ nkeys < MaxKeys /\ \E k \in MarkKeys : Key(k)

NextMarks == MarkKeyPress \/ NotifySelection \/ Settle

SpecMarks == InitMarks /\ [][NextMarks]_vars

\* the user selects with the mouse or adds a cursor: the primary selection and
\* the secondary ones change, and the host will notify updateSelection
HostSelections ==
    { [anchor |-> 0, active |-> 0, others |-> <<>>],
      [anchor |-> 0, active |-> 1, others |-> <<>>],
      [anchor |-> 1, active |-> 1, others |-> <<FALSE>>],
      [anchor |-> 0, active |-> 1, others |-> <<TRUE>>],
      [anchor |-> 1, active |-> 1, others |-> <<TRUE>>] }

HostSelect ==
    /\ Idle
    /\ \E sel \in HostSelections :
          /\ <<sel.anchor, sel.active, sel.others>> # <<anchor, active, others>>
          /\ Install([St EXCEPT !.anchor = sel.anchor, !.active = sel.active,
                                !.others = sel.others, !.selNotify = TRUE])
    /\ UNCHANGED history

\* "ab" / "cd"
SelectDocs == { Doc(<<"a", "b", NL, "c", "d">>, 0) }

SelectKeys == {Esc, "d", "2", "i"}

InitSelect == \E doc \in SelectDocs : Constructed(doc)

SelectKeyPress == Idle /\ nkeys < MaxKeys /\ \E k \in SelectKeys : Key(k)

NextSelect == SelectKeyPress \/ HostSelect \/ NotifySelection \/ Settle

SpecSelect == InitSelect /\ [][NextSelect]_vars

\* commands whose host edit may fail
FailKeys == {Esc, "d", "c", "x", "2", "w", "v"}

FailKeyPress == Idle /\ nkeys < MaxKeys /\ \E k \in FailKeys : Key(k)

NextFail == FailKeyPress \/ NotifySelection \/ Settle \/ HostEditFails

SpecFail == Init /\ [][NextFail]_vars

\* "(a) b" / "c d" / "e": brackets, words and three lines
FlagDocs == { Doc(<<"(", "a", ")", " ", "b", NL, "c", " ", "d", NL, "e">>, 1) }

FlagKeys == {"x", "d", "j", "w"}

InitFlags == \E doc \in FlagDocs : Constructed(doc)

FlagKeyPress == Idle /\ nkeys < MaxKeys /\ \E k \in FlagKeys : Key(k)

NextFlags == FlagKeyPress \/ NotifySelection \/ Settle

SpecFlags == InitFlags /\ [][NextFlags]_vars

\* finds on a line: "b a ab" / "a", where a occurs twice behind the cursor's b
\* and once on the next line, from its first character and from its last a
RepeatDocs ==
    { Doc(<<"b", " ", "a", " ", "a", "b", NL, "a">>, 0),
      Doc(<<"b", " ", "a", " ", "a", "b", NL, "a">>, 4) }

RepeatKeys == {"f", "t", ";", ",", "a", "2", "d"}

InitRepeat == \E doc \in RepeatDocs : Constructed(doc)

RepeatKeyPress == Idle /\ nkeys < MaxKeys /\ \E k \in RepeatKeys : Key(k)

NextRepeat == RepeatKeyPress \/ NotifySelection \/ Settle

SpecRepeat == InitRepeat /\ [][NextRepeat]_vars

\* Visual mode: "aB" / "cd" selected from its first character
VisualDocs == { Doc(<<"a", "B", NL, "c", "d">>, 0) }

VisualKeys == VisualInstantKeys \cup {"v", "l"}

InitVisual == \E doc \in VisualDocs : Constructed(doc)

VisualKeyPress == Idle /\ nkeys < MaxKeys /\ \E k \in VisualKeys : Key(k)

NextVisual == VisualKeyPress \/ NotifySelection \/ Settle

SpecVisual == InitVisual /\ [][NextVisual]_vars

\* linewise changes on the whole-line buffers
ChangeKeys == {"c", "S", "j", "k", "2"}

ChangeKeyPress == Idle /\ nkeys < MaxKeys /\ \E k \in ChangeKeys : Key(k)

NextChange == ChangeKeyPress \/ NotifySelection \/ Settle

SpecChange == InitLines /\ [][NextChange]_vars

\* the repeat command: "ab cd" / "ef" from its first character
DotDocs == { Doc(<<"a", "b", " ", "c", "d", NL, "e", "f">>, 0) }

DotKeys == {".", "x", "s", "i", "d", "w", Esc}

InitDot == \E doc \in DotDocs : Constructed(doc)

DotKeyPress == Idle /\ nkeys < MaxKeys /\ \E k \in DotKeys : Key(k)

NextDot == DotKeyPress \/ NotifySelection \/ Settle

SpecDot == InitDot /\ [][NextDot]_vars

\* yanks with a motion, with a text object, as Y and on a Visual selection
YankKeys == {"y", "Y", "i", "w", "v", "l"}

YankKeyPress == Idle /\ nkeys < MaxKeys /\ \E k \in YankKeys : Key(k)

NextYank == YankKeyPress \/ NotifySelection \/ Settle

SpecYank == InitDot /\ [][NextYank]_vars

\* operators, counts, replays and selections made by the user on "ab" / "cd"
PendingKeys == {".", "d", "2", "w"}

PendingKeyPress == Idle /\ nkeys < MaxKeys /\ \E k \in PendingKeys : Key(k)

NextPending == PendingKeyPress \/ HostSelect \/ NotifySelection \/ Settle

SpecPending == InitSelect /\ [][NextPending]_vars

\* lines of different lengths: "abc" / "d" / "efg" from the end and from the
\* start of its first line
VerticalDocs ==
    { Doc(<<"a", "b", "c", NL, "d", NL, "e", "f", "g">>, 2),
      Doc(<<"a", "b", "c", NL, "d", NL, "e", "f", "g">>, 0) }

VerticalKeys == {"j", "k", "l", "d", "2"}

InitVertical == \E doc \in VerticalDocs : Constructed(doc)

VerticalKeyPress == Idle /\ nkeys < MaxKeys /\ \E k \in VerticalKeys : Key(k)

NextVertical == VerticalKeyPress \/ NotifySelection \/ Settle

SpecVertical == InitVertical /\ [][NextVertical]_vars

(***************************************************************************)
(* Properties                                                              *)
(***************************************************************************)

\* a key has been passed and `prev` is the state it found
KeyFrom(modes) == nkeys > 0 /\ prev.mode \in modes

Reset ==
    /\ pseudoMode = Null
    /\ enteredCount = <<>>
    /\ operatorCount = <<>>
    /\ operatorPending = Null
    /\ registerTarget = "\""

\* C1: of two consecutive keys the first is fully executed before the second is
\* processed: every command still in flight was started by the latest key, so no
\* edit, mode change or cursor update of an earlier key follows a later key.
C1_KeysDoNotOverlap == \A i \in DOMAIN tasks : tasks[i].seq = nkeys

\* C2: after every key that completes a command (an Action was resolved and
\* executed) or aborts one (<esc>), in Normal, Visual and OperatorPending mode,
\* no pseudo-mode is pending and enteredCount and operatorCount are empty.  The
\* operator key that only opens OperatorPending mode completes nothing.
C2_CountsClearedAfterCommand ==
    /\ KeyFrom({"Normal", "Visual", "OperatorPending"})
    /\ Idle
    /\ ~threw
    /\ lastKey = Esc \/ lastCmd.type \notin {"null", "operator"}
    => /\ pseudoMode \in {Null, Undefined}
       /\ enteredCount = <<>>
       /\ operatorCount = <<>>

\* a key the resolution order has no rule for in state s: nothing is pending,
\* and the key is no digit, motion, pseudo-mode prefix or command of the mode
Unmatched(s, k) ==
    /\ k # Esc
    /\ s.pseudoMode \in {Null, Undefined}
    /\ k \notin Digits \cup MotionKeys \cup FindKeys \cup PseudoModeKeys
    /\ s.mode = "Normal"
          => k \notin ChangeModeKeys \cup OperatorKeys \cup NormalInstantKeys \cup {"."}
    /\ s.mode = "Visual" => k \notin VisualInstantKeys \cup {"i", "a"}
    /\ s.mode = "OperatorPending" => k \notin {s.operatorPending, "i", "a"}

\* C3: in Normal, Visual and OperatorPending mode a key that matches no rule
\* returns no Action, leaves buffer, registers and marks unchanged, and forces
\* Normal mode with counts, pending operator, pseudo-mode and register target
\* reset; nothing is thrown.
C3_UnmatchedKeyResets ==
    KeyFrom({"Normal", "Visual", "OperatorPending"}) /\ Unmatched(prev, lastKey)
    => /\ lastCmd = NoAction
       /\ ~threw
       /\ text = prev.text
       /\ registers = prev.registers
       /\ marks = prev.marks
       /\ tasks = <<>>
       /\ mode = "Normal"
       /\ Reset

\* an unmatched key arrived while an operator with a count was pending (2dz)
C3_UnmatchedKeyInOperatorPending ==
    /\ KeyFrom({"OperatorPending"})
    /\ Unmatched(prev, lastKey)
    /\ prev.operatorCount = <<"2">>
    /\ prev.operatorPending = "d"
    /\ mode = "Normal"

\* the last key was taken as the argument of the pseudo-mode pm that was
\* pending: it completed that pseudo-mode's command, or was rejected by it and
\* the command was abandoned
ConsumedAsArgument(pm) ==
    CASE pm = "f" ->
            /\ lastCmd.type = "motion"
            /\ lastCmd.name = prev.pseudoModeParameter
            /\ lastCmd.target = lastKey
      [] pm \in {Backtick, "'"} ->
            lastCmd.type = "motion" /\ lastCmd.name = pm /\ lastCmd.target = lastKey
      [] pm = "g" ->
            \/ lastCmd.name \in {"gg", "gI"}
            \/ lastCmd = NoAction /\ mode = "Normal" /\ enteredCount = <<>>
      [] pm = "r" -> lastCmd.type = "replace" /\ lastCmd.name = lastKey
      [] pm = "Q" -> lastCmd = NoAction \/ lastCmd.name = "jump"
      [] pm = "\"" -> lastCmd = NoAction /\ enteredCount = prev.enteredCount
      [] pm = "m" ->
            lastCmd.type = "instant" /\ lastCmd.name = "m" /\ lastCmd.target = lastKey
      [] pm = "o" ->
            \/ lastCmd.type = "object" /\ lastCmd.name = lastKey
            \/ lastCmd = NoAction /\ mode = "Normal" /\ enteredCount = <<>>

\* C4: whenever a pseudo-mode is pending (find, g, r, jump, register, mark set,
\* mark jump, text object), the next key other than <esc> is consumed as that
\* pseudo-mode's argument whatever the key is: it is never taken as a count
\* digit, a motion, a doubled operator or an instant command.
C4_PendingPseudoModeConsumesKey ==
    /\ KeyFrom({"Normal", "Visual", "OperatorPending"})
    /\ prev.pseudoMode \in {"f", "g", "r", "Q", "\"", "m", Backtick, "'", "o"}
    /\ lastKey # Esc
    => ConsumedAsArgument(prev.pseudoMode)

C6_UnsatisfiableMotionIsAbsorbed ==
    /\ KeyFrom({"Normal"})
    /\ lastCmd.type = "motion"
    /\ lastMotion.kind # "ok"
    => /\ ~threw
       /\ anchor = prev.anchor
       /\ active = prev.active
       /\ mode = "Normal"
       /\ enteredCount = <<>>
       /\ operatorCount = <<>>

\* the cursor one column to the left of the start of the selection of s,
\* clamped to column 0
OneColumnLeft(s) ==
    offsetAt(s.text, positionAt(s.text, selStart(s)).line,
             Max(positionAt(s.text, selStart(s)).character - 1, 0))

\* C7: from Normal, Insert, Visual and OperatorPending mode, whatever is pending
\* (pseudo-mode, partial count, operator, selected register), <esc> leads to
\* Normal mode with pseudo-mode cleared, both counts empty, no pending operator
\* and the unnamed register as target, and modifies neither the buffer nor a
\* register; from Insert mode the cursor column becomes max(column - 1, 0).
C7_EscapeResets ==
    KeyFrom({"Normal", "Insert", "Visual", "OperatorPending"}) /\ lastKey = Esc
    => /\ mode = "Normal"
       /\ Reset
       /\ text = prev.text
       /\ registers = prev.registers
       /\ tasks = <<>>
       /\ ~threw
       /\ prev.mode = "Insert"
             => anchor = OneColumnLeft(prev) /\ active = OneColumnLeft(prev)

\* <esc> was pressed in Insert mode with the cursor beyond column 0
C7_EscapeFromInsert ==
    /\ KeyFrom({"Insert"})
    /\ lastKey = Esc
    /\ positionAt(prev.text, selStart(prev)).character > 0
    /\ mode = "Normal"

\* the count of an operator command: the operator's count times the motion's,
\* a missing count being 1
ComposedCount(s) == NumberOr(s.operatorCount, 1) * NumberOr(s.enteredCount, 1)

\* C8: an operator c, d or y entered with count a and combined with a motion
\* typed with count b has its motion calculated with count a*b, a missing count
\* being 1, for every motion other than G, gg and %: the range is the one the
\* motion with count a*b has from the cursor.
C8_OperatorCountTimesMotionCount ==
    /\ KeyFrom({"OperatorPending"})
    /\ prev.operatorPending \in OperatorKeys
    /\ lastCmd.type = "motion"
    /\ lastCmd.name \notin {"G", "gg", "%"}
    => /\ lastCmd.count = ComposedCount(prev)
       /\ lastMotion = VimCalculateMotion(prev, [lastCmd EXCEPT !.count = ComposedCount(prev)],
                                          selStart(prev))

\* 3d3w: the motion w of count 3 met the operator d of count 3
C8_ThreeTimesThree ==
    /\ KeyFrom({"OperatorPending"})
    /\ prev.operatorPending = "d"
    /\ prev.operatorCount = <<"3">>
    /\ prev.enteredCount = <<"3">>
    /\ lastCmd.type = "motion"
    /\ lastCmd.name = "w"
    /\ lastCmd.count = 9

NonZeroDigits == Digits \ {"0"}

\* empty, or a decimal numeral without a leading zero
WellFormedCount(c) ==
    c = <<>> \/ (c[1] \in NonZeroDigits /\ \A i \in DOMAIN c : c[i] \in Digits)

\* the last key was appended to enteredCount and yielded no Action
ExtendedCount ==
    lastCmd = NoAction /\ enteredCount = Append(prev.enteredCount, lastKey)

\* the rule for 0: a count digit when a count is in progress, else the motion
ZeroRule ==
    IF prev.enteredCount # <<>> THEN ExtendedCount
    ELSE lastCmd.type = "motion" /\ lastCmd.name = "0"

CountsResolved(s) ==
    /\ s.mode \in {"Normal", "Visual", "OperatorPending"}
    /\ s.pseudoMode \in {Null, Undefined}

FirstLine(s) == positionAt(s.text, selStart(s)).line
LastLine(s) == Min(FirstLine(s) + ComposedCount(s) - 1, lineCount(s.text) - 1)

\* the text t without its lines first..last
WithoutLines(t, first, last) ==
    IF last = lineCount(t) - 1
    THEN (IF first = 0 THEN <<>> ELSE SubText(t, 0, LineEnd(t, first - 1)))
    ELSE SubText(t, 0, LineStart(t, first)) \o SubText(t, LineStart(t, last + 1), Len(t))

\* the text t with its lines first..last replaced by one empty line
WithLinesEmptied(t, first, last) ==
    IF last = lineCount(t) - 1
    THEN SubText(t, 0, LineStart(t, first))
    ELSE SubText(t, 0, LineStart(t, first)) \o SubText(t, LineEnd(t, last), Len(t))

\* the lines first..last of t, each with its line break
LinesText(t, first, last) == SubText(t, LineStart(t, first), LineEnd(t, last)) \o <<NL>>

\* C10: in OperatorPending mode with no pseudo-mode pending, the key of the
\* pending operator (dd, cc, yy) resolves to a linewise motion over count lines
\* from the cursor line, clamped to the last line, and the operator is executed
\* on these lines (they are yanked, deleted or changed); the key of another
\* operator (dy, cd) executes nothing and resets to Normal.
C10_DoubledOperator ==
    /\ KeyFrom({"OperatorPending"})
    /\ prev.pseudoMode \in {Null, Undefined}
    /\ prev.operatorPending \in OperatorKeys
    /\ lastKey \in OperatorKeys
    => IF lastKey = prev.operatorPending
       THEN /\ lastCmd = MotionAction("line", ComposedCount(prev), Null)
            /\ ~threw
            /\ lastMotion.kind = "ok"
            /\ lastMotion.linewise
            /\ lastMotion.start = selStart(prev)
            /\ positionAt(prev.text, lastMotion.end).line = LastLine(prev)
            /\ registers[prev.registerTarget].linewise
            /\ lastKey = "y"
                  => /\ text = prev.text
                     /\ mode = "Normal"
                     /\ registers[prev.registerTarget].text
                           = LinesText(prev.text, FirstLine(prev), LastLine(prev))
            /\ lastKey = "d" /\ Idle
                  => /\ text = WithoutLines(prev.text, FirstLine(prev), LastLine(prev))
                     /\ mode = "Normal"
            /\ lastKey = "c" /\ Idle
                  => /\ text = WithLinesEmptied(prev.text, FirstLine(prev), LastLine(prev))
                     /\ mode = "Insert"
       ELSE /\ lastCmd = NoAction
            /\ ~threw
            /\ text = prev.text
            /\ registers = prev.registers
            /\ tasks = <<>>
            /\ mode = "Normal"
            /\ Reset

\* 3dd with fewer than three lines left below the cursor, settled
C10_CountedLinesClamped ==
    /\ KeyFrom({"OperatorPending"})
    /\ prev.operatorPending = "d"
    /\ lastKey = "d"
    /\ ComposedCount(prev) = 3
    /\ FirstLine(prev) + 2 > lineCount(prev.text) - 1
    /\ Idle
    /\ text = WithoutLines(prev.text, FirstLine(prev), LastLine(prev))

\* C11: in Normal mode Q and then a search character put the engine in Jump
\* mode (and Jump mode is entered in no other way); the label keys that follow
\* are processed in Jump mode until the jump resolves or aborts.
C11_SearchEntersJumpMode ==
    /\ KeyFrom({"Normal"})
    /\ prev.pseudoMode = "Q"
    /\ ~prev.indexSet.active
    /\ lastKey # Esc
    => mode = "Jump"

\* the indices at which character k occurs in t, whatever its case
Occurrences(t, k) == {i \in 0..(Len(t) - 1) : ToUpperCase(t[i + 1]) = ToUpperCase(k)}

\* C12: when the search character occurs exactly once in the buffer, Q followed
\* by that character resolves at once to a jump onto the occurrence: the cursor
\* is on it and the jump state is cleared, with no label key needed.
C12_SingleMatchJumpsAtOnce ==
    /\ KeyFrom({"Normal"})
    /\ prev.pseudoMode = "Q"
    /\ ~prev.indexSet.active
    /\ lastKey # Esc
    /\ Cardinality(Occurrences(prev.text, lastKey)) = 1
    /\ Idle
    => /\ \A i \in Occurrences(prev.text, lastKey) : anchor = i /\ active = i
       /\ ~indexSet.active
       /\ pseudoMode = Null

\* the matches under the label key k in the jump index of state s: none when k
\* is no letter
LabelGroup(s, k) ==
    IF \E n \in 1..26 : UpperLetters[n] = ToUpperCase(k)
    THEN s.indexSet.groups[CHOOSE n \in 1..26 : UpperLetters[n] = ToUpperCase(k)]
    ELSE <<>>

\* groups is the round-robin partition of the list: group n holds, in order,
\* the elements number n, n + 26, n + 52, ... of it
RoundRobin(groups, list) ==
    /\ DOMAIN groups = 1..26
    /\ \A n \in 1..26 :
          /\ Len(groups[n]) = Cardinality({i \in 1..Len(list) : (i - 1) % 26 = n - 1})
          /\ \A j \in 1..Len(groups[n]) : groups[n][j] = list[n + 26 * (j - 1)]

\* C13: while a jump index is active a label key does exactly one of three
\* things: with an empty group, or a key that is no label A-Z, the jump is
\* aborted, the index cleared and the mode Normal with the cursor unmoved; with
\* a group of one match a jump motion to that index is produced and the index
\* cleared; otherwise the matches of the group, and only they, are partitioned
\* into fresh groups and the jump continues.
C13_LabelKeyNarrowsJump ==
    /\ KeyFrom({"Normal"})
    /\ prev.pseudoMode = "Q"
    /\ prev.indexSet.active
    /\ lastKey # Esc
    => /\ ~threw
       /\ Len(LabelGroup(prev, lastKey)) = 0
             => /\ lastCmd = NoAction
                /\ ~indexSet.active
                /\ pseudoMode = Null
                /\ mode = "Normal"
                /\ anchor = prev.anchor
                /\ active = prev.active
       /\ Len(LabelGroup(prev, lastKey)) = 1
             => /\ lastCmd = JumpAction(LabelGroup(prev, lastKey)[1])
                /\ ~indexSet.active
       /\ Len(LabelGroup(prev, lastKey)) > 1
             => /\ lastCmd = NoAction
                /\ indexSet.active
                /\ pseudoMode = "Q"
                /\ RoundRobin(indexSet.groups, LabelGroup(prev, lastKey))
                /\ anchor = prev.anchor
                /\ active = prev.active

\* a label with two matches was pressed and the two were given fresh labels
C13_GroupRepartitioned ==
    /\ KeyFrom({"Normal"})
    /\ prev.pseudoMode = "Q"
    /\ prev.indexSet.active
    /\ Len(LabelGroup(prev, lastKey)) = 2
    /\ indexSet.active
    /\ Len(indexSet.groups[1]) = 1
    /\ Len(indexSet.groups[2]) = 1

Elements(list) == {list[i] : i \in DOMAIN list}

\* the groups are pairwise disjoint and without repetition, their union is the
\* set S, and their sizes differ by at most one
Partitions(groups, S) ==
    /\ \A n \in 1..26 : Cardinality(Elements(groups[n])) = Len(groups[n])
    /\ \A n, m \in 1..26 : n # m => Elements(groups[n]) \cap Elements(groups[m]) = {}
    /\ UNION {Elements(groups[n]) : n \in 1..26} = S
    /\ \A n, m \in 1..26 : Len(groups[n]) <= Len(groups[m]) + 1

\* the element of S that has i elements of S below it is in the group of
\* letter number i mod 26, as its element number i div 26
InAscendingRoundRobin(groups, S) ==
    \A x \in S :
        LET i == Cardinality({y \in S : y < x})
        IN  /\ Len(groups[(i % 26) + 1]) >= (i \div 26) + 1
            /\ groups[(i % 26) + 1][(i \div 26) + 1] = x

\* C14: the letter groups are a true round-robin partition: the i-th match in
\* ascending buffer order is in the group of letter number i mod 26, the groups
\* are pairwise disjoint, their union is exactly the matches, and their sizes
\* differ by at most one; the initial search collects every occurrence of the
\* search character in the whole buffer, whatever its case.
C14_RoundRobinPartition ==
    /\ KeyFrom({"Normal"}) /\ prev.pseudoMode = "Q" /\ lastKey # Esc /\ ~prev.indexSet.active
          => /\ indexSet.active
             /\ Partitions(indexSet.groups, Occurrences(prev.text, lastKey))
             /\ InAscendingRoundRobin(indexSet.groups, Occurrences(prev.text, lastKey))
    /\ KeyFrom({"Normal"}) /\ prev.pseudoMode = "Q" /\ lastKey # Esc /\ prev.indexSet.active
          /\ indexSet.active
          => /\ Partitions(indexSet.groups, Elements(LabelGroup(prev, lastKey)))
             /\ InAscendingRoundRobin(indexSet.groups, Elements(LabelGroup(prev, lastKey)))

\* 28 matches were found: the labels A and B hold two of them, the others one
C14_MatchesWrapAround ==
    /\ KeyFrom({"Normal"})
    /\ prev.pseudoMode = "Q"
    /\ ~prev.indexSet.active
    /\ Cardinality(Occurrences(prev.text, lastKey)) = 28
    /\ indexSet.active
    /\ indexSet.groups[1] = <<0, 26>>
    /\ indexSet.groups[2] = <<1, 27>>
    /\ indexSet.groups[26] = <<25>>

\* the number of lines of text in t: none in the empty buffer
LinesOf(t) == IF t = <<>> THEN 0 ELSE lineCount(t)

\* C15: dd with count k, with k lines from the cursor line on, removes exactly
\* these k whole lines, so that k lines fewer remain, and the targeted register
\* (the unnamed one unless another was selected) holds exactly the text of the
\* removed lines including the trailing line separator, marked linewise; also
\* when the last line is among them and when they are the whole buffer.
C15_LinewiseDeleteFillsRegister ==
    /\ KeyFrom({"OperatorPending"})
    /\ prev.pseudoMode \in {Null, Undefined}
    /\ prev.operatorPending = "d"
    /\ lastKey = "d"
    /\ FirstLine(prev) + ComposedCount(prev) - 1 <= lineCount(prev.text) - 1
    /\ Idle
    => /\ text = WithoutLines(prev.text, FirstLine(prev), LastLine(prev))
       /\ LinesOf(text) = lineCount(prev.text) - ComposedCount(prev)
       /\ registers[prev.registerTarget]
             = [linewise |-> TRUE,
                text |-> LinesText(prev.text, FirstLine(prev), LastLine(prev))]

\* the text t with a copy of its line n inserted as line n + 1
WithLineCopied(t, n) ==
    SubText(t, 0, LineEnd(t, n)) \o <<NL>>
        \o SubText(t, LineStart(t, n), LineEnd(t, n)) \o SubText(t, LineEnd(t, n), Len(t))

\* the unnamed register of s holds line n of the buffer, linewise
UnnamedHoldsLine(s, n) ==
    /\ "\"" \in DOMAIN s.registers
    /\ s.registers["\""] = [linewise |-> TRUE, text |-> LinesText(s.text, n, n)]

\* yy on one line leaves that line, linewise, as what the next p pastes
YankLine ==
    /\ KeyFrom({"OperatorPending"})
    /\ prev.pseudoMode \in {Null, Undefined}
    /\ prev.operatorPending = "y"
    /\ lastKey = "y"
    /\ ComposedCount(prev) = 1
    /\ Idle
    => /\ text = prev.text
       /\ mode = "Normal"
       /\ FirstLine(St) = FirstLine(prev)
       /\ registerTarget = "\""
       /\ UnnamedHoldsLine(St, FirstLine(prev))

\* p in the state yy leaves behind copies the line below itself
PasteYankedLine ==
    /\ KeyFrom({"Normal"})
    /\ prev.pseudoMode \in {Null, Undefined}
    /\ prev.enteredCount = ""
    /\ prev.registerTarget = "\""
    /\ UnnamedHoldsLine(prev, FirstLine(prev))
    /\ lastKey = "p"
    /\ Idle
    => /\ text = WithLineCopied(prev.text, FirstLine(prev))
       /\ lineCount(text) = lineCount(prev.text) + 1

\* C16: yy then p on cursor line L leaves lines 0..L unchanged, inserts a
\* verbatim copy of line L as line L + 1 and shifts the later lines down by
\* one, the line count growing by exactly 1, also when L is the last line.
C16_YankLineThenPaste == YankLine /\ PasteYankedLine

\* the index after the last character of the run of one character class that
\* starts at index from (a word, or the blanks between two words)
RECURSIVE RunEnd(_, _)
RunEnd(t, from) ==
    IF from + 1 < Len(t) /\ getCharacterType(t[from + 2]) = getCharacterType(t[from + 1])
    THEN RunEnd(t, from + 1)
    ELSE from + 1

\* index c of t is the first character of a word that is followed by whitespace
\* and then another word
WordThenBlanksThenWord(t, c) ==
    /\ c < Len(t)
    /\ getCharacterType(t[c + 1]) # "Whitespace"
    /\ c > 0 => getCharacterType(t[c]) # getCharacterType(t[c + 1])
    /\ RunEnd(t, c) < Len(t)
    /\ getCharacterType(t[RunEnd(t, c) + 1]) = "Whitespace"
    /\ RunEnd(t, RunEnd(t, c)) < Len(t)

\* C17: dw with the cursor at the first character of a word that is followed by
\* whitespace and another word removes exactly the word and the whitespace
\* after it, puts exactly that text charwise into the target register, and
\* leaves the cursor at its original index in Normal mode.
C17_DeleteWord ==
    /\ KeyFrom({"OperatorPending"})
    /\ prev.pseudoMode \in {Null, Undefined}
    /\ prev.operatorPending = "d"
    /\ lastKey = "w"
    /\ ComposedCount(prev) = 1
    /\ prev.anchor = prev.active
    /\ WordThenBlanksThenWord(prev.text, prev.active)
    /\ Idle
    => LET c == prev.active
           n == RunEnd(prev.text, RunEnd(prev.text, c))
       IN  /\ text = SubText(prev.text, 0, c) \o SubText(prev.text, n, Len(prev.text))
           /\ registers[prev.registerTarget]
                = [linewise |-> FALSE, text |-> SubText(prev.text, c, n)]
           /\ anchor = c
           /\ active = c
           /\ mode = "Normal"

\* dw on "abc def" from index 0 has left "def", the cursor at index 0 and
\* "abc " in the register
C17_AbcDef ==
    /\ KeyFrom({"OperatorPending"})
    /\ prev.operatorPending = "d"
    /\ lastKey = "w"
    /\ prev.text = <<"a", "b", "c", " ", "d", "e", "f">>
    /\ prev.active = 0
    /\ Idle
    /\ text = <<"d", "e", "f">>
    /\ active = 0
    /\ mode = "Normal"
    /\ registers[prev.registerTarget] = [linewise |-> FALSE, text |-> <<"a", "b", "c", " ">>]

\* the index of the first character of the run of one character class that
\* holds index at
RECURSIVE RunStart(_, _)
RunStart(t, at) ==
    IF at > 0 /\ getCharacterType(t[at]) = getCharacterType(t[at + 1])
    THEN RunStart(t, at - 1)
    ELSE at

\* ciw has just been typed with the cursor on a word character
ChangeInnerWord ==
    /\ KeyFrom({"OperatorPending"})
    /\ prev.operatorPending = "c"
    /\ lastCmd.type = "object"
    /\ lastCmd.name = "w"
    /\ lastCmd.range = "i"
    /\ prev.anchor = prev.active
    /\ prev.active < Len(prev.text)
    /\ getCharacterType(prev.text[prev.active + 1]) = "Text"
    /\ Idle

\* C18: ciw with the cursor inside a maximal run of word characters, also a run
\* that starts at index 0 or ends at the last character of the buffer, removes
\* exactly that run and ends in Insert mode with the cursor where the run
\* started.
C18_ChangeInnerWord ==
    ChangeInnerWord
    => LET a == RunStart(prev.text, prev.active)
           b == RunEnd(prev.text, prev.active)
       IN  /\ text = SubText(prev.text, 0, a) \o SubText(prev.text, b, Len(prev.text))
           /\ mode = "Insert"
           /\ anchor = a
           /\ active = a

\* ciw inside a run that ends at the last character of the buffer and does not
\* start at index 0
C18_RunAtBufferEnd ==
    /\ ChangeInnerWord
    /\ RunEnd(prev.text, prev.active) = Len(prev.text)
    /\ RunStart(prev.text, prev.active) > 0
    /\ mode = "Insert"

\* the line that holds offset off of t
LineAt(t, off) == positionAt(t, off).line

\* n h from index, and then n l, on t
LeftThenRight(t, n, index) ==
    MotionL(t, MotionAction("l", n, Null),
            MotionH(t, MotionAction("h", n, Null), index).end).end

\* h or l has just been typed in Normal mode, with its count
LeftOrRight ==
    /\ KeyFrom({"Normal"})
    /\ lastCmd.type = "motion"
    /\ lastCmd.name \in {"h", "l"}
    /\ prev.anchor = prev.active
    /\ Idle

\* the range h or l has from the cursor it was typed on
LeftOrRightMotion ==
    IF lastCmd.name = "h" THEN MotionH(prev.text, lastCmd, prev.active)
    ELSE MotionL(prev.text, lastCmd, prev.active)

\* C20: from a cursor whose column is less than the line length, n h and then
\* n l return to the original index when h does not clamp at column 0 and l
\* does not clamp at the line end; h and l never leave the line.  Stated of the
\* two motions on every index of the buffer, and of the cursor after the key.
C20_LeftThenRightReturns ==
    /\ \A index \in 0..Len(text), n \in 1..Len(text) :
          LET column == positionAt(text, index).character
              length == LineLength(text, LineAt(text, index))
          IN  /\ LineAt(text, MotionH(text, MotionAction("h", n, Null), index).end)
                   = LineAt(text, index)
              /\ LineAt(text, MotionL(text, MotionAction("l", n, Null), index).end)
                   = LineAt(text, index)
              /\ column < length /\ column >= n => LeftThenRight(text, n, index) = index
    /\ LeftOrRight
       => /\ text = prev.text
          /\ LineAt(text, active) = LineAt(text, prev.active)
          /\ anchor = active
          /\ lastCmd.name = "h" /\ positionAt(prev.text, prev.active).character >= lastCmd.count
             => active = prev.active - lastCmd.count
          /\ lastCmd.name = "l"
               /\ positionAt(prev.text, prev.active).character + lastCmd.count
                    < LineLength(prev.text, LineAt(prev.text, prev.active))
             => active = prev.active + lastCmd.count

\* 2l has returned the cursor to the last character of "ab cd" from index 2,
\* two columns to its left
C20_TwoLeftTwoRight ==
    /\ LeftOrRight
    /\ lastCmd.name = "l"
    /\ lastCmd.count = 2
    /\ text = <<"a", "b", " ", "c", "d">>
    /\ prev.active = 2
    /\ active = 4
    /\ LeftThenRight(text, 2, active) = active

\* the number of occurrences of character c at the indices from..to of t
CountOf(t, c, from, to) == Cardinality({k \in from..to : t[k + 1] = c})

\* the bracket at index j closes or opens, depth-balanced, the bracket at index
\* i: the brackets of this pair between them, both included, even out
Balanced(t, i, j) ==
    /\ t[j + 1] = matchingBraces(t[i + 1])
    /\ CountOf(t, t[i + 1], Min(i, j), Max(i, j)) = CountOf(t, t[j + 1], Min(i, j), Max(i, j))

\* the indices where the bracket at index i could be balanced: behind an opening
\* bracket, before a closing one
Partners(t, i) ==
    { j \in (IF t[i + 1] \in OpenBraces THEN (i + 1)..(Len(t) - 1) ELSE 0..(i - 1)) :
        Balanced(t, i, j) }

\* the nearest of them
Partner(t, i) ==
    CHOOSE j \in Partners(t, i) :
        \A k \in Partners(t, i) : IF t[i + 1] \in OpenBraces THEN j <= k ELSE j >= k

Percent == MotionAction("%", 0, Null)

\* % has just been typed without a count in Normal mode on a bracket
PercentOnBracket ==
    /\ KeyFrom({"Normal"})
    /\ lastCmd.type = "motion"
    /\ lastCmd.name = "%"
    /\ lastCmd.count = 0
    /\ prev.anchor = prev.active
    /\ prev.active < Len(prev.text)
    /\ prev.text[prev.active + 1] \in OpenBraces \cup CloseBraces
    /\ Idle

\* C19: % without a count on a bracket of ( ) [ ] { } lands on the
\* depth-balanced partner of that bracket, nested occurrences of the same pair
\* counted; % from the partner returns to the bracket; on a bracket without a
\* partner the motion yields no movement.  Stated of the motion on every
\* bracket of the buffer, and of the cursor after the key.
C19_PercentFindsPartner ==
    /\ \A index \in 0..(Len(text) - 1) :
          text[index + 1] \in OpenBraces \cup CloseBraces
          => IF Partners(text, index) = {}
             THEN MotionPercent(text, Percent, index).kind = "null"
             ELSE /\ MotionPercent(text, Percent, index).kind = "ok"
                  /\ MotionPercent(text, Percent, index).end = Partner(text, index)
                  /\ MotionPercent(text, Percent, Partner(text, index)).end = index
    /\ PercentOnBracket
       => /\ text = prev.text
          /\ anchor = active
          /\ active = IF Partners(prev.text, prev.active) = {} THEN prev.active
                      ELSE Partner(prev.text, prev.active)

\* a second % has returned the cursor from the outer ")" of "(a(b)c)" to the
\* outer "("
C19_OuterPairAndBack ==
    /\ PercentOnBracket
    /\ text = <<"(", "a", "(", "b", ")", "c", ")">>
    /\ prev.active = 6
    /\ active = 0
    /\ nkeys = 2

\* % on the outer "(" of "((a)", which has no partner, has not moved the cursor
C19_NoPartnerNoMovement ==
    /\ PercentOnBracket
    /\ text = <<"(", "(", "a", ")">>
    /\ prev.active = 0
    /\ active = 0

\* the edit a pending host operation makes on state s: the replaced range
\* [from, to) and the inserted text
EditOf(s, task) ==
    LET Edit(from, to, inserted) ==
            [from |-> ClampOffset(s.text, Min(from, to)),
             to |-> ClampOffset(s.text, Max(from, to)), inserted |-> inserted]
    IN  CASE task.op = "delete" -> Edit(task.a, task.b, <<>>)
          [] task.op = "replace" -> Edit(task.a, task.b, task.txt)
          [] task.op = "insert" -> Edit(task.a, task.a, task.txt)
          [] task.op = "type" -> Edit(selStart(s), selEnd(s), task.txt)

\* position (l1, c1) is at or before position (l2, c2)
AtOrBefore(l1, c1, l2, c2) == l1 < l2 \/ (l1 = l2 /\ c1 <= c2)

\* what becomes of mark mk when [from, to) of t is replaced by inserted
MarkAfterEdit(t, mk, from, to, inserted) ==
    LET sp == positionAt(t, from)
        ep == positionAt(t, to)
    IN  IF ~mk.valid THEN mk
        ELSE IF AtOrBefore(sp.line, sp.character, mk.line, mk.character)
                /\ AtOrBefore(mk.line, mk.character, ep.line, ep.character)
        THEN NoMark
        ELSE IF ~AtOrBefore(mk.line, mk.character, ep.line, ep.character)
        THEN Mark(mk.line + CountOf(inserted, NL, 0, Len(inserted) - 1)
                      - (ep.line - sp.line),
                  mk.character)
        ELSE mk

\* the step applies a pending edit of the host
EditSettles ==
    /\ tasks # <<>>
    /\ ~selNotify
    /\ Head(tasks).op \in {"delete", "replace", "insert", "type"}
    /\ text' = SubText(text, 0, EditOf(St, Head(tasks)).from)
                  \o EditOf(St, Head(tasks)).inserted
                  \o SubText(text, EditOf(St, Head(tasks)).to, Len(text))
    /\ nkeys' = nkeys

\* C21: on a document change every stored mark inside the replaced range is
\* removed, every mark strictly after it has its line shifted by the newlines
\* inserted minus the lines the range spanned and keeps its column, and every
\* mark strictly before it is unchanged; a mark that is absent becomes present
\* only by m, and a mark-jump to an absent mark does not move the cursor.
C21_MarksFollowEdits ==
    [][ /\ EditSettles
           => /\ DOMAIN marks' = DOMAIN marks
              /\ \A c \in DOMAIN marks :
                    marks'[c] = MarkAfterEdit(text, marks[c],
                                              EditOf(St, Head(tasks)).from,
                                              EditOf(St, Head(tasks)).to,
                                              EditOf(St, Head(tasks)).inserted)
        /\ \A c \in DOMAIN marks' :
              marks'[c].valid /\ (c \notin DOMAIN marks \/ ~marks[c].valid)
              => /\ nkeys' = nkeys + 1
                 /\ lastKey' = c
                 /\ lastCmd'.type = "instant"
                 /\ lastCmd'.name = "m"
        /\ /\ nkeys' = nkeys + 1
           /\ mode = "Normal"
           /\ pseudoMode \in {Backtick, "'"}
           /\ lastKey' \notin DOMAIN marks \/ ~marks[lastKey'].valid
           => /\ lastMotion'.kind = "null"
              /\ active' = active
              /\ anchor' = anchor
              /\ tasks' = tasks
      ]_vars

\* dd on the line of the mark a has removed it, and the jump to it that
\* followed has not moved the cursor
C21_RemovedMarkNoJump ==
    /\ KeyFrom({"Normal"})
    /\ prev.pseudoMode = Backtick
    /\ lastKey = "a"
    /\ ~marks["a"].valid
    /\ text # <<"a", "b", NL, "c", "d", NL, "e", "f">>
    /\ active = prev.active
    /\ Idle

\* an edit above the mark a has moved it up by one line
C21_MarkShifted ==
    /\ nkeys > 0
    /\ Idle
    /\ "a" \in DOMAIN prev.marks
    /\ prev.marks["a"].valid
    /\ marks["a"] = Mark(prev.marks["a"].line - 1, prev.marks["a"].character)
    /\ lineCount(text) = lineCount(prev.text) - 1

\* the step delivers a selection-change notification
Notification == selNotify /\ nkeys' = nkeys /\ tasks' = tasks /\ text' = text

\* the pending state of the engine
Pending ==
    <<pseudoMode, pseudoModeParameter, operatorPending, objectRange, enteredCount,
      operatorCount, enteredText, indexSet, registerTarget>>

\* some selection of the editor is not empty
SomeSelectionNonEmpty == anchor # active \/ \E i \in DOMAIN others : ~others[i]

\* C22: a selection-change notification switches the mode only as follows: in
\* Normal or OperatorPending mode with some selection non-empty it enters
\* Visual mode with all pending state reset; in Visual mode with every
\* selection empty it enters Normal mode with the state reset; otherwise, and
\* always in Insert mode, it changes neither the mode nor the pending state.
C22_NotificationSwitchesMode ==
    [][ Notification
        => IF mode \in {"Normal", "OperatorPending"} /\ SomeSelectionNonEmpty
           THEN mode' = "Visual"
                /\ Pending' = <<Null, Null, Null, Null, <<>>, <<>>, <<>>, NoIndexSet, "\"">>
           ELSE IF mode = "Visual" /\ ~SomeSelectionNonEmpty
           THEN mode' = "Normal"
                /\ Pending' = <<Null, Null, Null, Null, <<>>, <<>>, <<>>, NoIndexSet, "\"">>
           ELSE mode' = mode /\ Pending' = Pending
      ]_vars

\* a notification with a non-empty secondary selection has discarded the
\* operator d and its count 2 and entered Visual mode
C22_OperatorDiscarded ==
    /\ nkeys = 2
    /\ lastKey = "d"
    /\ prev.enteredCount = <<"2">>
    /\ anchor = active
    /\ others = <<FALSE>>
    /\ ~selNotify
    /\ mode = "Visual"
    /\ operatorPending = Null
    /\ operatorCount = <<>>

CharwiseExclusive == {"h", "l", "0", "^", "w", "W", "b", "F", "T", Backtick}
CharwiseInclusive == {"$", "e", "E", "B", "f", "t", "jump"}
LinewiseExclusive == {"j", "k", "G", "gg", "-", "+", "_", NL, "'", "line"}

Flags(name, count) ==
    IF name = "%" THEN (IF count # 0 THEN <<TRUE, FALSE>> ELSE <<FALSE, TRUE>>)
    ELSE IF name \in CharwiseExclusive THEN <<FALSE, FALSE>>
    ELSE IF name \in CharwiseInclusive THEN <<FALSE, TRUE>>
    ELSE <<TRUE, FALSE>>

\* the characters of the buffer, and one that is not in it
Targets == {text[i] : i \in DOMAIN text} \cup {"z"}

\* the engine with the mark a on (line, character) and the remembered search
\* find of target
Remembering(line, character, find, target) ==
    [St EXCEPT !.marks = MapPut(EmptyMap, "a", Mark(line, character)),
               !.lastLineSearch = [set |-> TRUE, motion |-> find, target |-> target]]

\* range r carries the flags of motion name typed with count
Carries(r, name, count) == r.kind = "ok" => <<r.linewise, r.inclusive>> = Flags(name, count)

\* C24: every range the motion calculator returns carries exactly the linewise
\* and inclusive flags of the fact table, whatever the buffer, the cursor and
\* the count; ; and , carry the flags of the find motion they repeat.
C24_MotionFlags ==
    \A index \in 0..Len(text), count \in 0..2 :
        /\ \A name \in (CharwiseExclusive \cup CharwiseInclusive \cup LinewiseExclusive
                            \cup {"%"}) \ {"f", "t", "F", "T", Backtick, "'", "jump"} :
              Carries(calculateMotion(text, MotionAction(name, count, Null), index),
                      name, count)
        /\ Carries(calculateMotion(text, JumpAction(count), index), "jump", 1)
        /\ \A find \in {"f", "t", "F", "T"}, target \in Targets :
              /\ Carries(calculateMotion(text, MotionAction(find, count, target), index),
                         find, count)
              /\ Carries(VimCalculateMotion(Remembering(0, 0, find, target),
                                            MotionAction(";", count, Null), index),
                         find, count)
              /\ Carries(VimCalculateMotion(Remembering(0, 0, find, target),
                                            MotionAction(",", count, Null), index),
                         FlipLineSearch(find), count)
        /\ \A line \in 0..(lineCount(text) - 1), name \in {Backtick, "'"} :
              Carries(VimCalculateMotion(Remembering(line, count, "f", "z"),
                                         MotionAction(name, 1, "a"), index),
                      name, 1)

\* dw has deleted over the charwise exclusive range of w, and in the buffer it
\* left every kind of motion has a range from some index
C24_EveryKindHasRange ==
    /\ KeyFrom({"OperatorPending"})
    /\ lastKey = "w"
    /\ lastMotion.kind = "ok"
    /\ <<lastMotion.linewise, lastMotion.inclusive>> = <<FALSE, FALSE>>
    /\ Idle
    /\ text # prev.text
    /\ \E index \in 0..Len(text) :
          /\ calculateMotion(text, MotionAction("%", 0, Null), index).kind = "ok"
          /\ calculateMotion(text, MotionAction("%", 1, Null), index).kind = "ok"
          /\ calculateMotion(text, MotionAction("j", 1, Null), index).kind = "ok"
          /\ calculateMotion(text, MotionAction("$", 1, Null), index).kind = "ok"
          /\ \E target \in Targets :
                VimCalculateMotion(Remembering(0, 0, "T", target),
                                   MotionAction(",", 1, Null), index).kind = "ok"

\* the line j (down = TRUE) or k with count n targets from line
VerticalTarget(t, down, n, line) ==
    IF down THEN line + Min(n, lineCount(t) - 1 - line) ELSE line - Min(n, line)

\* the cursor is at the buffer edge in the direction of travel
AtEdge(t, down, line) == line = (IF down THEN lineCount(t) - 1 ELSE 0)

\* C25: j and k with count n target the line cursorLine + min(n, lines below)
\* respectively cursorLine - min(n, lines above); with the cursor already at
\* the buffer edge in the direction of travel the motion yields no range, and
\* an operator combined with it is abandoned without mutation.
C25_VerticalMotionClamps ==
    /\ \A index \in 0..Len(text), n \in 1..3, down \in BOOLEAN :
          LET r == calculateMotion(text, MotionAction(IF down THEN "j" ELSE "k", n, Null),
                                   index)
          IN  IF AtEdge(text, down, LineAt(text, index)) THEN r.kind = "null"
              ELSE /\ r.kind = "ok"
                   /\ LineAt(text, r.end) = VerticalTarget(text, down, n, LineAt(text, index))
    /\ /\ KeyFrom({"OperatorPending"})
       /\ prev.pseudoMode \in {Null, Undefined}
       /\ lastKey \in {"j", "k"}
       /\ AtEdge(prev.text, lastKey = "j", FirstLine(prev))
       /\ Idle
       => /\ text = prev.text
          /\ registers = prev.registers
          /\ mode = "Normal"

\* the indices from..to - 1 of t that hold a bracket
BracketsIn(t, from, to) ==
    {k \in from..(to - 1) : t[k + 1] \in OpenBraces \cup CloseBraces}

\* where % without a count leads from index when it looks for the nearest
\* bracket in [index, to) and matches it: -1 when there is no bracket there or
\* the bracket has no balanced partner
PercentTarget(t, index, to) ==
    LET found == BracketsIn(t, index, to)
        nearest == CHOOSE b \in found : \A k \in found : b <= k
    IN  IF found = {} THEN -1
        ELSE IF Partners(t, nearest) = {} THEN -1
        ELSE Partner(t, nearest)

\* the range of % from index agrees with target
PercentLeadsTo(t, index, target) ==
    IF target = -1 THEN MotionPercent(t, Percent, index).kind = "null"
    ELSE /\ MotionPercent(t, Percent, index).kind = "ok"
         /\ MotionPercent(t, Percent, index).end = target

\* % has just been typed without a count in Normal mode
PercentTyped ==
    /\ KeyFrom({"Normal"})
    /\ lastCmd.type = "motion"
    /\ lastCmd.name = "%"
    /\ lastCmd.count = 0
    /\ prev.anchor = prev.active
    /\ Idle

\* C26 as stated: % without a count finds the nearest bracket at or after the
\* cursor anywhere up to the end of the buffer, also on a later line, and
\* matches it; it yields no range only without such a bracket or partner.
C26_PercentScansToBufferEnd ==
    /\ \A index \in 0..Len(text) :
          PercentLeadsTo(text, index, PercentTarget(text, index, Len(text)))
    /\ PercentTyped
       => active = IF PercentTarget(prev.text, prev.active, Len(prev.text)) = -1
                   THEN prev.active
                   ELSE PercentTarget(prev.text, prev.active, Len(prev.text))

\* C26: % without a count finds the nearest bracket at or after the cursor on
\* the cursor's line and matches it, the partner being looked for up to the
\* buffer's ends; it yields no range only when no bracket exists between the
\* cursor and the end of its line or the bracket found has no balanced
\* partner.  It never searches backward for an enclosing bracket.
C26_PercentScansToLineEnd ==
    /\ \A index \in 0..Len(text) :
          PercentLeadsTo(text, index,
                         PercentTarget(text, index, LineEnd(text, LineAt(text, index))))
    /\ PercentTyped
       => active = IF PercentTarget(prev.text, prev.active,
                                    LineEnd(prev.text, LineAt(prev.text, prev.active))) = -1
                   THEN prev.active
                   ELSE PercentTarget(prev.text, prev.active,
                                      LineEnd(prev.text, LineAt(prev.text, prev.active)))

\* % typed on "b" of "[b" / "(])", behind the only bracket of its line, has not
\* moved the cursor to the pair of the next line
C26_BracketOnLaterLine ==
    /\ PercentTyped
    /\ text = <<"[", "b", NL, "(", "]", ")">>
    /\ prev.active = 1
    /\ active = 1
    /\ PercentTarget(text, 1, Len(text)) = 5

\* the pairs (open at i, close at j) of brackets open / close of t that enclose
\* index strictly and balance
Enclosing(t, open, index) ==
    { p \in (0..(index - 1)) \X ((index + 1)..(Len(t) - 1)) :
        /\ t[p[1] + 1] = open
        /\ Partners(t, p[1]) # {}
        /\ p[2] = Partner(t, p[1]) }

\* the innermost of them
Innermost(t, open, index) ==
    CHOOSE p \in Enclosing(t, open, index) :
        \A q \in Enclosing(t, open, index) : q[1] <= p[1]

\* the keys of the bracket objects, by opening bracket
BracketObjects ==
    [open \in {"(", "{", "["} |->
        CASE open = "(" -> {"(", ")", "b"}
          [] open = "{" -> {"{", "}", "B"}
          [] open = "[" -> {"[", "]"}]

\* C27: for a bracket text object with the cursor strictly inside a pair, the
\* range is the innermost pair that encloses the cursor, nested occurrences of
\* the same pair balanced and line boundaries crossed, also when the opening
\* bracket is the first character of the buffer; range a covers both
\* delimiters and range i exactly the text between them.  A quote object is
\* searched on the cursor's line only and fails when a delimiter is missing on
\* that line.
C27_BracketObjectIsInnermostPair ==
    \A index \in 0..(Len(text) - 1) :
        /\ \A open \in DOMAIN BracketObjects : \A object \in BracketObjects[open] :
              Enclosing(text, open, index) # {}
              => /\ calculateObject(text, ObjectAction("a", object, 1), index)
                      = Range(Innermost(text, open, index)[1],
                              Innermost(text, open, index)[2])
                 /\ calculateObject(text, ObjectAction("i", object, 1), index)
                      = Range(Innermost(text, open, index)[1] + 1,
                              Innermost(text, open, index)[2] - 1)
        /\ \A quote \in {"\"", "'", Backtick}, range \in {"a", "i"} :
              LET r == calculateObject(text, ObjectAction(range, quote, 1), index)
                  line == LineAt(text, index)
                  onLine(from, to) == \E k \in from..to : text[k + 1] = quote
              IN  /\ ~onLine(LineStart(text, line), index)
                        \/ ~onLine(index, LineEnd(text, line) - 1)
                     => r.kind = "null"
                  /\ r.kind = "ok"
                     => /\ LineAt(text, r.start) = line
                        /\ LineAt(text, r.end) = line

\* the occurrences of c on the line of index, behind it or before it
OccurrencesOf(t, c, index, forward) ==
    { k \in 0..(Len(t) - 1) :
        /\ t[k + 1] = c
        /\ LineAt(t, k) = LineAt(t, index)
        /\ IF forward THEN k > index ELSE k < index }

\* the n-th of them, counted away from index
NthOccurrence(t, c, index, forward, n) ==
    CHOOSE k \in OccurrencesOf(t, c, index, forward) :
        Cardinality({ j \in OccurrencesOf(t, c, index, forward) :
                        IF forward THEN j < k ELSE j > k }) = n - 1

\* what the find name (f, t, F or T) for the n-th c is from index
Searched(t, name, c, n, index) ==
    LET forward == name \in {"f", "t"}
        delta == CASE name = "t" -> -1 [] name = "T" -> 1 [] OTHER -> 0
    IN  IF Cardinality(OccurrencesOf(t, c, index, forward)) < n THEN NoMotion
        ELSE Motion(index, NthOccurrence(t, c, index, forward, n) + delta, forward, FALSE)

Opposite(name) ==
    CASE name = "f" -> "F" [] name = "F" -> "f" [] name = "t" -> "T" [] name = "T" -> "t"

\* the find that ; or , repeats
RepeatedFind(search, k) == IF k = "," THEN Opposite(search.motion) ELSE search.motion

\* the repeat of search by ; or , : a t / T that stays is searched one further
Repeated(t, search, k, n, index) ==
    LET name == RepeatedFind(search, k)
        plain == Searched(t, name, search.target, n, index)
    IN  IF name \in {"t", "T"} /\ plain.kind = "ok" /\ plain.end = index
        THEN Searched(t, name, search.target, n + 1, index)
        ELSE plain

\* the last key was ; or , as a motion, with a find remembered
RepeatTyped ==
    /\ KeyFrom({"Normal", "OperatorPending"})
    /\ lastCmd.type = "motion"
    /\ lastCmd.name \in {";", ","}
    /\ prev.lastLineSearch.set

\* C28: ; repeats the last f/F/t/T with the same target and direction and ,
\* repeats it in the flipped direction, the remembered search unchanged; a
\* remembered t or T whose plain repeat would leave the cursor where it is is
\* searched exactly once more with count + 1, so the cursor strictly advances
\* whenever a further occurrence exists on the line.
C28_RepeatFind ==
    RepeatTyped
    => /\ lastMotion = Repeated(prev.text, prev.lastLineSearch, lastCmd.name,
                                lastCmd.count, prev.active)
       /\ lastLineSearch = prev.lastLineSearch
       /\ LET name == RepeatedFind(prev.lastLineSearch, lastCmd.name)
          IN  /\ name \in {"t", "T"}
              /\ Cardinality(OccurrencesOf(prev.text, prev.lastLineSearch.target,
                                           prev.active, name = "t")) > lastCmd.count
              => /\ lastMotion.kind = "ok"
                 /\ lastMotion.end # prev.active
                 /\ prev.mode = "Normal" => active # prev.active

\* the last key was one of d c C R S s x u U y Y in Visual mode with no
\* pseudo-mode pending, and what it started has completed
VisualInstantTyped ==
    /\ Idle
    /\ KeyFrom({"Visual"})
    /\ prev.pseudoMode = Null
    /\ lastKey \in VisualInstantKeys

\* C29: in Visual mode with no pseudo-mode pending each of the keys
\* d c C R S s x u U y Y resolves to an instant action that is executed on the
\* selection and leaves Visual mode with the pending state reset: the mode
\* afterwards is Insert for the change variants and Normal for the others.
C29_VisualInstantLeavesVisual ==
    VisualInstantTyped
    => /\ lastCmd.type = "instant"
       /\ mode = IF lastKey \in {"c", "C", "R", "S", "s"} THEN "Insert" ELSE "Normal"
       /\ Reset

\* d or c with a text object that has a range has just been typed, and the edit
\* has completed
ObjectOperated ==
    /\ Idle
    /\ KeyFrom({"OperatorPending"})
    /\ prev.operatorPending \in {"d", "c"}
    /\ lastCmd.type = "object"
    /\ lastMotion.kind = "ok"

\* C30: a delete or change operator combined with a text object copies exactly
\* the text it removes into the target register, charwise, as the operator
\* combined with a motion covering that range does.
C30_ObjectOperatorFillsRegister ==
    ObjectOperated
    => LET from == Min(lastMotion.start, Len(prev.text))
           to == Min(lastMotion.end + 1, Len(prev.text))
       IN  /\ text = SubText(prev.text, 0, from) \o SubText(prev.text, to, Len(prev.text))
           /\ prev.registerTarget \in DOMAIN registers
           /\ registers[prev.registerTarget]
                = [linewise |-> FALSE, text |-> SubText(prev.text, from, to)]

\* a linewise change has just been typed (c with a linewise motion that has a
\* range, or S) and has completed
LinewiseChange ==
    /\ Idle
    /\ nkeys > 0
    /\ \/ /\ prev.mode = "OperatorPending"
          /\ prev.operatorPending = "c"
          /\ lastCmd.type = "motion"
          /\ lastMotion.kind = "ok"
          /\ lastMotion.linewise
       \/ /\ prev.mode = "Normal"
          /\ prev.pseudoMode \in {Null, Undefined}
          /\ lastCmd.type = "instant"
          /\ lastCmd.name = "S"

\* the first and the last line it removed
ChangedFirst ==
    IF lastCmd.type = "instant" THEN FirstLine(prev)
    ELSE LineAt(prev.text, Min(lastMotion.start, lastMotion.end))

ChangedLast ==
    IF lastCmd.type = "instant"
    THEN Min(FirstLine(prev) + lastCmd.count - 1, lineCount(prev.text) - 1)
    ELSE LineAt(prev.text, Max(lastMotion.start, lastMotion.end))

\* C31 as stated: after a linewise change the mode is Insert, and a fresh empty
\* line is opened for the cursor exactly when the removed range did not include
\* the buffer's first line; when it did, no line is opened and the cursor is at
\* the removal point.
C31_LineOpenedUnlessFirst ==
    LinewiseChange
    => /\ mode = "Insert"
       /\ anchor = active
       /\ IF ChangedFirst = 0
          THEN /\ text = WithoutLines(prev.text, ChangedFirst, ChangedLast)
               /\ active = 0
          ELSE /\ text = WithLinesEmptied(prev.text, ChangedFirst, ChangedLast)
               /\ active = LineStart(text, ChangedFirst)

\* C31: after a linewise change the mode is Insert and the removed lines are
\* replaced by one empty line with the cursor on it: a fresh empty line is
\* opened unless the removed range was the whole buffer, which is left empty
\* with the cursor at its start.
C31_LinewiseChangeLeavesEmptyLine ==
    LinewiseChange
    => /\ mode = "Insert"
       /\ anchor = active
       /\ text = WithLinesEmptied(prev.text, ChangedFirst, ChangedLast)
       /\ active = LineStart(text, ChangedFirst)
       /\ (ChangedFirst = 0 /\ ChangedLast = lineCount(prev.text) - 1) => text = <<>>

\* cc on the first of two lines has opened an empty line before the second
C31_FirstLineChanged ==
    /\ LinewiseChange
    /\ prev.text = <<"a", "b", NL, "c", "d">>
    /\ ChangedFirst = 0
    /\ ChangedLast = 0
    /\ text = <<NL, "c", "d">>
    /\ active = 0
    /\ mode = "Insert"

\* . has just been typed in Normal mode as a command, and what it started has
\* completed
DotTyped ==
    /\ Idle
    /\ KeyFrom({"Normal"})
    /\ prev.pseudoMode \in {Null, Undefined}
    /\ lastKey = "."

\* C32: . in Normal mode executes the last recorded action once more against
\* the current cursor and then leaves the engine in Normal mode with all
\* pending state reset, whichever action was recorded; the recorded action is
\* not changed by ., and with no recorded action . changes nothing.
C32_DotRepeatsAndResets ==
    DotTyped
    => /\ mode = "Normal"
       /\ Reset
       /\ lastAction = prev.lastAction
       /\ prev.lastAction = NoAction
          => /\ text = prev.text
             /\ anchor = prev.anchor
             /\ active = prev.active
             /\ registers = prev.registers
       /\ (prev.lastAction.type = "instant" /\ prev.lastAction.name \in {"x", "s"}
                /\ prev.anchor = prev.active)
          => text = SubText(prev.text, 0, prev.active)
                      \o SubText(prev.text,
                                 Min(prev.active + prev.lastAction.count,
                                     LineEnd(prev.text, LineAt(prev.text, prev.active))),
                                 Len(prev.text))

\* the class of character c for small words and for WORDs
ClassOf(big, c) == IF big THEN bigCharacterType(c) ELSE getCharacterType(c)

\* C33: for every index i inside the buffer getWord(i) and getWORD(i) return a
\* range with 0 <= start <= i <= end <= length - 1 in which all characters have
\* the class of the character at i and which is maximal, also for the first and
\* the last run of the buffer; for an index outside the buffer the result is
\* absent.
C33_WordBoundaries ==
    \A big \in BOOLEAN :
        /\ \A i \in 0..(Len(text) - 1) :
              LET w == WordAt(text, big, i)
              IN  /\ w.kind = "ok"
                  /\ 0 <= w.start
                  /\ w.start <= i
                  /\ i <= w.end
                  /\ w.end <= Len(text) - 1
                  /\ \A k \in w.start..w.end :
                        ClassOf(big, text[k + 1]) = ClassOf(big, text[i + 1])
                  /\ w.start > 0
                        => ClassOf(big, text[w.start]) # ClassOf(big, text[i + 1])
                  /\ w.end < Len(text) - 1
                        => ClassOf(big, text[w.end + 2]) # ClassOf(big, text[i + 1])
        /\ \A i \in {-1, Len(text)} : WordAt(text, big, i).kind = "null"

\* the last key completed a yank (y with a motion or a text object that has a
\* range, Y, or y / Y on a Visual selection), and what it started has completed
YankCompleted ==
    /\ Idle
    /\ nkeys > 0
    /\ prev.pseudoMode \in {Null, Undefined, "o"}
    /\ \/ /\ prev.mode = "OperatorPending"
          /\ prev.operatorPending = "y"
          /\ lastCmd.type \in {"motion", "object"}
          /\ lastMotion.kind = "ok"
       \/ /\ prev.mode = "Normal"
          /\ lastCmd.type = "instant"
          /\ lastCmd.name = "Y"
       \/ /\ prev.mode = "Visual"
          /\ lastCmd.type = "instant"
          /\ lastCmd.name \in {"y", "Y"}

\* C34: a yank never modifies the buffer: after every key sequence that
\* completes a y operator (with a motion, with a text object, as Y, or y / Y on
\* a Visual selection) the buffer text is what it was before, and the mode is
\* Normal.
C34_YankLeavesBuffer ==
    YankCompleted
    => /\ text = prev.text
       /\ mode = "Normal"

\* C35: a command typed without a register selection always addresses the
\* unnamed register, also the very first command after the engine is
\* constructed: where no register is ever selected only the unnamed register
\* is written, a paste reads the unnamed register, and p after yy as the first
\* command pastes the yanked line.
C35_UnnamedRegisterByDefault ==
    /\ DOMAIN registers \subseteq {"\""}
    /\ (nkeys > 0 /\ lastCmd.type = "instant" /\ lastCmd.name \in {"p", "P"})
       => lastCmd.register = "\""
    /\ (nkeys = 3 /\ lastKey = "p" /\ prev.registers # EmptyMap
            /\ prev.text = <<"a", "b">> /\ Idle)
       => text = <<"a", "b", NL, "a", "b">>

\* C36: in every state between two keys the mode is OperatorPending if and
\* only if a pending operator (c, d or y) is recorded, and operatorCount is
\* non-empty only in OperatorPending mode, after any sequence of keys,
\* selection-change notifications and . replays.
C36_PendingOperatorIffMode ==
    Idle
    => /\ mode = "OperatorPending" <=> operatorPending \in OperatorKeys
       /\ operatorCount # <<>> => mode = "OperatorPending"

\* an operator entered with a count is pending
C36_CountedOperatorPending ==
    /\ Idle
    /\ KeyFrom({"Normal"})
    /\ lastKey = "d"
    /\ mode = "OperatorPending"
    /\ operatorPending = "d"
    /\ operatorCount = <<"2">>

\* C37: in OperatorPending mode every key that resolves to an Action of any
\* kind (a motion, a text object, and also a replace, a mark-set and gI) ends
\* the pending operator: after the key the mode is Normal or Insert, never
\* still OperatorPending with the operator waiting.
C37_ActionEndsPendingOperator ==
    /\ Idle
    /\ KeyFrom({"OperatorPending"})
    /\ lastCmd.type # "null"
    => /\ mode \in {"Normal", "Insert"}
       /\ operatorPending \notin OperatorKeys

\* the candidates of the letter groups
Candidates(groups) == UNION { Elements(groups[n]) : n \in 1..26 }

\* the number of base-26 digits of n
RECURSIVE Digits26(_)
Digits26(n) == IF n < 26 THEN 1 ELSE 1 + Digits26(n \div 26)

\* the largest number of label keys after which a jump with these letter groups
\* has resolved to a target or been aborted
RECURSIVE LabelKeysLeft(_)
LabelKeysLeft(groups) ==
    LET several == { n \in 1..26 : Len(groups[n]) > 1 }
        left == { LabelKeysLeft(setToLetterGroups(groups[n])) : n \in several }
    IN  IF several = {} THEN 1
        ELSE 1 + (CHOOSE x \in left : \A y \in left : y <= x)

\* a label key has just selected a non-empty group of a jump index with more
\* than one candidate
LabelSelected ==
    /\ KeyFrom({"Normal"})
    /\ prev.pseudoMode = "Q"
    /\ prev.indexSet.active
    /\ LabelGroup(prev, lastKey) # <<>>
    /\ Cardinality(Candidates(prev.indexSet.groups)) > 1

\* C38: a jump always ends: a label key that selects a non-empty group of a
\* jump index with n > 1 candidates leaves strictly fewer than n candidates, so
\* every sequence of label keys resolves to a single target or aborts after at
\* most as many keys as n has base-26 digits, and the resolved target is one of
\* the indices found by the initial search.
C38_JumpEnds ==
    /\ indexSet.active
       => /\ LabelKeysLeft(indexSet.groups)
                <= Digits26(Cardinality(Candidates(indexSet.groups)))
          /\ \E k \in JumpKeys : Candidates(indexSet.groups) \subseteq Occurrences(text, k)
    /\ LabelSelected
       => IF indexSet.active
          THEN /\ Candidates(indexSet.groups) \subseteq Candidates(prev.indexSet.groups)
               /\ Cardinality(Candidates(indexSet.groups))
                     < Cardinality(Candidates(prev.indexSet.groups))
          ELSE /\ lastCmd.type = "motion"
               /\ lastCmd.name = "jump"
               /\ lastCmd.index \in Candidates(prev.indexSet.groups)
               /\ text = prev.text

\* of 28 candidates the label A has left two
C38_TwentyEightToTwo ==
    /\ LabelSelected
    /\ Cardinality(Candidates(prev.indexSet.groups)) = 28
    /\ indexSet.active
    /\ Cardinality(Candidates(indexSet.groups)) = 2
    /\ LabelKeysLeft(indexSet.groups) = 1

\* the column of offset off of t
ColumnAt(t, off) == positionAt(t, off).character

\* j or k has just been typed as a motion and found no range
VerticalWithoutRange(modes) ==
    /\ Idle
    /\ KeyFrom(modes)
    /\ lastCmd.type = "motion"
    /\ lastCmd.name \in {"j", "k"}
    /\ lastMotion.kind = "null"

\* C39: j and k never change the column: whenever j or k returns a range, its
\* end is on the target line at exactly the cursor's column; when the target
\* line is shorter than the cursor's column the motion returns no range (no
\* movement, and an operator combined with it is abandoned) instead of
\* clamping the column.
C39_VerticalKeepsColumn ==
    /\ \A index \in 0..Len(text), n \in 1..3, down \in BOOLEAN :
          LET r == calculateMotion(text, MotionAction(IF down THEN "j" ELSE "k", n, Null),
                                   index)
              target == VerticalTarget(text, down, n, LineAt(text, index))
          IN  IF LineLength(text, target) < ColumnAt(text, index)
              THEN r.kind = "null"
              ELSE /\ r.kind = "ok"
                   /\ r.start = index
                   /\ LineAt(text, r.end) = target
                   /\ ColumnAt(text, r.end) = ColumnAt(text, index)
    /\ VerticalWithoutRange({"Normal"})
       => /\ anchor = prev.anchor
          /\ active = prev.active
          /\ text = prev.text
    /\ VerticalWithoutRange({"OperatorPending"})
       => /\ text = prev.text
          /\ registers = prev.registers
          /\ mode = "Normal"
          /\ operatorPending = Null

\* dj from column 2 of "abc" above the shorter line "d" was abandoned
C39_ShorterLineBelow ==
    /\ VerticalWithoutRange({"OperatorPending"})
    /\ lastKey = "j"
    /\ prev.operatorPending = "d"
    /\ prev.text = <<"a", "b", "c", NL, "d", NL, "e", "f", "g">>
    /\ prev.active = 2
    /\ mode = "Normal"

\* the operator op followed by the motion w, uncounted, has just been typed
\* with the cursor on a character of a word, and has completed
OperatorWord(op) ==
    /\ Idle
    /\ KeyFrom({"OperatorPending"})
    /\ prev.pseudoMode \in {Null, Undefined}
    /\ prev.operatorPending = op
    /\ lastKey = "w"
    /\ ComposedCount(prev) = 1
    /\ prev.anchor = prev.active
    /\ prev.active < Len(prev.text)
    /\ getCharacterType(prev.text[prev.active + 1]) # "Whitespace"

\* C40: when the pending operator is c the motions w and W are calculated as e
\* and E: cw with the cursor inside or at the start of a word removes the text
\* from the cursor through the last character of that word and leaves the
\* whitespace after it in place, while dw keeps the plain w semantics.
C40_ChangeWordToWordEnd ==
    /\ OperatorWord("c")
       => /\ lastCmd.name = "e"
          /\ text = SubText(prev.text, 0, prev.active)
                      \o SubText(prev.text, RunEnd(prev.text, prev.active), Len(prev.text))
          /\ mode = "Insert"
    /\ OperatorWord("d")
       => /\ lastCmd.name = "w"
          /\ lastMotion = calculateMotion(prev.text, MotionAction("w", 1, Null), prev.active)

====
